---------------------------- MODULE Spec2Model ----------------------------
(***************************************************************************)
(* A model of the self-healing query pipeline of the lead-management       *)
(* robot: src/agents/sql_agent.py (SQLAgent), src/tools/sql_tools.py and   *)
(* the query path of src/agents/langgraph_agent.py (LangGraphAgent).       *)
(*                                                                         *)
(* TEXT.  The program works on raw query text with regular expressions.    *)
(* A text is modelled as the sequence of its atoms, the unique cut of a    *)
(* string into                                                             *)
(*   - maximal runs of [A-Za-z_]            (an identifier atom, "p"),     *)
(*   - maximal runs of [0-9]                (a digit atom, "10"),          *)
(*   - every other character on its own     (" ", "\n", "(", ".", ...);    *)
(*     "[fence]" stands for the three backquotes of a code fence.          *)
(* A word (\w+) is a maximal run of identifier and digit atoms, so "1drop" *)
(* is << "1", "drop" >> and a word boundary (\b) lies exactly between a    *)
(* word atom and a non-word atom (or the end of the text).  Offsets are    *)
(* atom indices (1-based; 0 stands for Python's None and for -1).          *)
(* The code also searches a few keywords without a word boundary (the     *)
(* prefix SELECT, rfind of LIMIT and ORDER BY, DISTINCT in the text, the   *)
(* fence tag sql): the catalogues hold no atom with one of these as a      *)
(* proper part (no identifier such as "limit_n").                          *)
(***************************************************************************)
EXTENDS Naturals, Integers, Sequences, FiniteSets, TLC

(***************************************************************************)
(* Characters classes and case folding                                     *)
(***************************************************************************)
SpaceAtoms == {" ", "\n"}

PunctAtoms == {"(", ")", ",", ".", ";", "=", "*", "'", ">", "\\", "[fence]"}

DigitAtoms == {"0", "1", "2", "3", "5", "7", "10", "50", "202511057549"}

\* the Chinese string literals of the rule templates (合伙人跟进中, 销售跟进中,
\* 已成交): word characters for \w and \b, but no [A-Za-z_] characters
CjkAtoms == {"hehuorengenjinzhong", "xiaoshougenjinzhong", "yichengjiao"}

IsSpace(a) == a \in SpaceAtoms

IsWordAtom(a) == a \notin SpaceAtoms /\ a \notin PunctAtoms

IsDigitAtom(a) == a \in DigitAtoms

IsIdentAtom(a) == IsWordAtom(a) /\ ~IsDigitAtom(a) /\ a \notin CjkAtoms

\* str.upper() on the atoms of the catalogues (re.IGNORECASE compares folded text)
UpperTable ==
  [a \in {"select", "Select", "from", "limit", "order", "by", "distinct", "desc",
          "asc", "drop", "update", "in", "where", "and", "join", "on", "as",
          "group", "count", "max", "parents", "parent_contacts", "parent_id",
          "id", "is_verified", "lead_management", "p", "pc", "sby"} |->
     CASE a = "select" -> "SELECT" [] a = "Select" -> "SELECT"
       [] a = "from" -> "FROM" [] a = "limit" -> "LIMIT"
       [] a = "order" -> "ORDER" [] a = "by" -> "BY"
       [] a = "distinct" -> "DISTINCT" [] a = "desc" -> "DESC"
       [] a = "asc" -> "ASC" [] a = "drop" -> "DROP"
       [] a = "update" -> "UPDATE" [] a = "in" -> "IN"
       [] a = "where" -> "WHERE" [] a = "and" -> "AND"
       [] a = "join" -> "JOIN" [] a = "on" -> "ON" [] a = "as" -> "AS"
       [] a = "group" -> "GROUP" [] a = "count" -> "COUNT"
       [] a = "max" -> "MAX" [] a = "parents" -> "PARENTS"
       [] a = "parent_contacts" -> "PARENT_CONTACTS"
       [] a = "parent_id" -> "PARENT_ID" [] a = "id" -> "ID"
       [] a = "is_verified" -> "IS_VERIFIED"
       [] a = "lead_management" -> "LEAD_MANAGEMENT"
       [] a = "p" -> "P" [] a = "pc" -> "PC" [] a = "sby" -> "SBY"]

FoldWith(table, a) == IF a \in DOMAIN table THEN table[a] ELSE a

Upper(a) == FoldWith(UpperTable, a)

UpperText(s) == [i \in 1..Len(s) |-> Upper(s[i])]

(***************************************************************************)
(* Slices and searches on texts                                            *)
(***************************************************************************)
Min(S) == CHOOSE x \in S : \A y \in S : x <= y

Max(S) == CHOOSE x \in S : \A y \in S : x >= y

\* the least / greatest index of a set of indices, 0 when there is none
First(S) == IF S = {} THEN 0 ELSE Min(S)

Last(S) == IF S = {} THEN 0 ELSE Max(S)

\* Python s[i-1:j-1]: the atoms at i .. j-1, empty when j <= i
Slice(s, i, j) == IF j <= i THEN << >> ELSE [k \in 1..(j - i) |-> s[i + k - 1]]

From(s, i) == Slice(s, i, Len(s) + 1)

AtomAt(s, i) == IF i >= 1 /\ i <= Len(s) THEN s[i] ELSE ""

\* \b between the atoms i-1 and i ("" stands for the end of the text)
IsWordAt(s, i) == i >= 1 /\ i <= Len(s) /\ IsWordAtom(s[i])

WordBoundary(s, i) == IsWordAt(s, i - 1) # IsWordAt(s, i)

\* \s* from i: the index of the first atom at or after i that is no whitespace
SkipSpaces(s, i) ==
  First({j \in i..(Len(s) + 1) : (j = Len(s) + 1 \/ ~IsSpace(s[j]))
                                 /\ \A k \in i..(j - 1) : IsSpace(s[k])})

\* \w+ from i (greedy): the index after the word that starts at i
WordEnd(s, i) ==
  First({j \in i..(Len(s) + 1) : ~IsWordAt(s, j) /\ \A k \in i..(j - 1) : IsWordAt(s, k)})

\* str.strip(), str.rstrip()
LStripIdx(s) == SkipSpaces(s, 1)

RStripEnd(s) == Last({j \in 1..Len(s) : ~IsSpace(s[j])})

RStrip(s) == Slice(s, 1, RStripEnd(s) + 1)

Strip(s) == Slice(s, LStripIdx(s), RStripEnd(s) + 1)

\* a keyword atom (compared without case) that starts at a word boundary
KwAt(s, i, kw) == i >= 1 /\ i <= Len(s) /\ Upper(s[i]) = kw /\ ~IsWordAt(s, i - 1)

\* \bKW\b
KwWordAt(s, i, kw) == KwAt(s, i, kw) /\ ~IsWordAt(s, i + 1)

\* \bK1\s+K2 : the index of K2 when the pattern matches at i, else 0
Kw2At(s, i, k1, k2) ==
  IF KwAt(s, i, k1) /\ IsSpace(AtomAt(s, i + 1)) /\ Upper(AtomAt(s, SkipSpaces(s, i + 1))) = k2
  THEN SkipSpaces(s, i + 1) ELSE 0

\* the text t occurs in s at i, compared without case (no boundary is asked)
OccursAt(s, i, t) ==
  i >= 1 /\ i + Len(t) - 1 <= Len(s) /\ \A k \in 1..Len(t) : Upper(s[i + k - 1]) = Upper(t[k])

Contains(s, t) == \E i \in 1..(Len(s) + 1) : OccursAt(s, i, t)

\* the concatenation of a sequence of texts, sep between them (str.join)
RECURSIVE Join(_, _)
Join(parts, sep) ==
  IF Len(parts) = 0 THEN << >>
  ELSE IF Len(parts) = 1 THEN parts[1]
  ELSE parts[1] \o sep \o Join(Tail(parts), sep)

\* re.split(",", s): the pieces of s between its commas
RECURSIVE SplitComma(_)
SplitComma(s) ==
  LET c == First({i \in 1..Len(s) : s[i] = ","})
  IN  IF c = 0 THEN << s >> ELSE << Slice(s, 1, c) >> \o SplitComma(From(s, c + 1))

\* [x.strip() for x in re.split(",", s) if x.strip()]
StrippedItems(s) ==
  LET all == SplitComma(s)
      keep == SelectSeq(all, LAMBDA x : Strip(x) # << >>)
  IN  [i \in 1..Len(keep) |-> Strip(keep[i])]

(***************************************************************************)
(* Questions.  A question is the sequence of its phrases; the code only    *)
(* tests `kw in question`, so a phrase counts for itself and for every     *)
(* keyword it holds as a substring.  Chinese phrases are written in pinyin *)
(* (the module's strings are ASCII):                                       *)
(*   mingcheng 名称, mingdan 名单, liebiao 列表, mingxi 明细,              *)
(*   xiangqing 详情, mingzi 名字, mingchengliebiao 名称列表,               *)
(*   yiyanzheng 已验证, yanzheng 验证, zhenshiweixinhao 真实微信号,        *)
(*   shiming 实名, yitianjiaweixin 已添加微信,                             *)
(*   jintian 今天, jinri 今日, xinzeng 新增, jiazhang 家长, zong 总,       *)
(*   duoshao 多少, youduoshao 有多少, shuliang 数量, genjin 跟进,          *)
(*   benyue 本月, chengjiao 成交, yichengjiao 已成交, jine 金额,           *)
(*   benzhou 本周, zhezhou 这周, muqianzheyizhou 目前这一周,               *)
(*   guoquyizhou 过去一周, jinyizhou 近一周, zuijinyizhou 最近一周,        *)
(*   yizhou 一周, chaxun 查询, suoyou 所有, zhuangtai 状态, tongji 统计,   *)
(*   fenbu 分布, lianxifangshi 联系方式 (no keyword of any rule).          *)
(***************************************************************************)
\* the keywords a phrase holds besides itself
SubPhrases(t) ==
  CASE t = "mingchengliebiao" -> {"mingcheng", "liebiao"}
    [] t = "yiyanzheng" -> {"yanzheng"}
    [] t = "names" -> {"name"}
    [] t = "youduoshao" -> {"duoshao"}
    [] t = "yichengjiao" -> {"chengjiao"}
    [] t = "guoquyizhou" -> {"yizhou"}
    [] t = "jinyizhou" -> {"yizhou"}
    [] t = "zuijinyizhou" -> {"jinyizhou", "yizhou"}
    [] t = "muqianzheyizhou" -> {"yizhou"}
    [] OTHER -> {}

\* str.lower() on the phrases of the catalogue
LowerPhrase(t) ==
  CASE t = "Names" -> "names" [] t = "VERIFIED" -> "verified" [] OTHER -> t

\* kw in text
HasPhrase(text, kw) == \E i \in 1..Len(text) : kw = text[i] \/ kw \in SubPhrases(text[i])

LowerQuestion(text) == [i \in 1..Len(text) |-> LowerPhrase(text[i])]

\* SQLAgent._wants_list
wants_list(natural_query) ==
  \E kw \in {"mingcheng", "mingdan", "liebiao", "mingxi", "xiangqing", "mingzi",
             "name", "names", "mingchengliebiao"} :
     HasPhrase(natural_query, kw) \/ HasPhrase(LowerQuestion(natural_query), kw)

\* wants_verified of SQLAgent._static_sql_issues
wants_verified(natural_query) ==
  \/ \E kw \in {"yiyanzheng", "yanzheng", "zhenshiweixinhao", "shiming", "yitianjiaweixin"} :
        HasPhrase(natural_query, kw)
  \/ \E kw \in {"verified", "real wechat", "real name"} :
        HasPhrase(LowerQuestion(natural_query), kw)

(***************************************************************************)
(* SQLAgent._find_top_level_clause_index                                   *)
(***************************************************************************)
\* depth after the atoms 1 .. n of s: "(" opens, ")" closes, never below 0
RECURSIVE ParenDepth(_, _)
ParenDepth(s, n) ==
  LET k == Last({j \in 1..n : s[j] \in {"(", ")"}})
  IN  IF k = 0 THEN 0
      ELSE IF s[k] = "(" THEN ParenDepth(s, k - 1) + 1
      ELSE IF ParenDepth(s, k - 1) = 0 THEN 0 ELSE ParenDepth(s, k - 1) - 1

\* re.escape(clause).replace(" ", "\\s+"): re.escape turns the blank of
\* "ORDER BY" into a backslash and a blank, so the replace leaves the pattern
\* \bORDER  <escaped backslash>  s+BY\b : the word ORDER, one literal
\* backslash, then a word of one or more "s" and "BY".  "LIMIT" has no blank
\* and stays \bLIMIT\b.
ClauseAt(s, i, clause) ==
  IF clause = "ORDER BY"
  THEN /\ KwAt(s, i, "ORDER")
       /\ AtomAt(s, i + 1) = "\\"
       /\ Upper(AtomAt(s, i + 2)) \in {"SBY", "SSBY"}
       /\ ~IsWordAt(s, i + 3)
  ELSE KwWordAt(s, i, clause)

find_top_level_clause_index(s, clause) ==
  First({i \in 1..Len(s) : ClauseAt(s, i, clause) /\ ParenDepth(s, i - 1) = 0})

\* s.upper().rfind("ORDER BY"), s.upper().rfind("LIMIT"): no boundary, one blank
RFindClause(s, clause) ==
  IF clause = "ORDER BY"
  THEN Last({i \in 1..Len(s) : Upper(s[i]) = "ORDER" /\ AtomAt(s, i + 1) = " "
                               /\ Upper(AtomAt(s, i + 2)) = "BY"})
  ELSE Last({i \in 1..Len(s) : Upper(s[i]) = clause})

(***************************************************************************)
(* SQLAgent._static_sql_issues: the Static Defect Detector                 *)
(***************************************************************************)
AggregateNames == {"COUNT", "SUM", "AVG", "MIN", "MAX"}

\* \b(COUNT|SUM|AVG|MIN|MAX)\s*\(
HasAggregateCall(s) ==
  \E i \in 1..Len(s) : /\ \E f \in AggregateNames : KwAt(s, i, f)
                       /\ AtomAt(s, SkipSpaces(s, i + 1)) = "("

\* \s+FROM\s at the whitespace run that ends before atom f
FromAfterSpace(s, f) ==
  f >= 2 /\ f < Len(s) /\ Upper(s[f]) = "FROM" /\ IsSpace(s[f - 1]) /\ IsSpace(s[f + 1])

\* the start of the whitespace run that ends before atom f
RunStart(s, f) == Last({j \in 1..(f - 1) : ~IsSpace(s[j])}) + 1

\* ^\s*SELECT\s+(.*?)\s+FROM\s : group 1 (as [ok, from, to)), s already stripped
SelectListSpan(s) ==
  LET g == SkipSpaces(s, 2)
      f == First({k \in (g + 1)..Len(s) : FromAfterSpace(s, k)})
  IN  IF Len(s) >= 2 /\ Upper(s[1]) = "SELECT" /\ IsSpace(s[2])
      THEN IF f # 0 THEN [ok |-> TRUE, from |-> g, to |-> RunStart(s, f)]
           ELSE IF g > 3 /\ FromAfterSpace(s, g) THEN [ok |-> TRUE, from |-> 3, to |-> 3]
           ELSE [ok |-> FALSE, from |-> 0, to |-> 0]
      ELSE [ok |-> FALSE, from |-> 0, to |-> 0]

\* the text of a group [ok, from, to), << >> when there is no match
GroupText(s, m) == IF m.ok THEN Slice(s, m.from, m.to) ELSE << >>

SelectList(s) == GroupText(s, SelectListSpan(s))

HasGroupBy(s) ==
  \E i \in 1..Len(s) : \E b \in {Kw2At(s, i, "GROUP", "BY")} : b # 0 /\ ~IsWordAt(s, b + 1)

\* \b<kw>\s+<table>\s+(\w+) : the alias (group 1) of the first match, << >> if none
AliasAfterTable(s, t) ==
  LET a == SkipSpaces(s, t + 1)
  IN  IF t # 0 /\ IsSpace(AtomAt(s, t + 1)) /\ IsWordAt(s, a)
      THEN [ok |-> TRUE, from |-> a, to |-> WordEnd(s, a)]
      ELSE [ok |-> FALSE, from |-> 0, to |-> 0]

TableAliasAt(s, i, kw, table) == AliasAfterTable(s, Kw2At(s, i, kw, table))

TableAlias(s, kw, table) ==
  GroupText(s, TableAliasAt(s, First({k \in 1..Len(s) : TableAliasAt(s, k, kw, table).ok}),
                            kw, table))

\* \bON\s+<p>\.parent_id\s*=\s*<pc>\.parent_id\b at i: the index after the match, else 0
WrongJoinEnd(s, i, p, pc) ==
  LET a == SkipSpaces(s, i + 1)
      d1 == a + Len(p)
      e == SkipSpaces(s, d1 + 2)
      b == SkipSpaces(s, e + 1)
      d2 == b + Len(pc)
  IN  IF /\ KwAt(s, i, "ON") /\ IsSpace(AtomAt(s, i + 1))
         /\ OccursAt(s, a, p) /\ AtomAt(s, d1) = "." /\ Upper(AtomAt(s, d1 + 1)) = "PARENT_ID"
         /\ AtomAt(s, e) = "="
         /\ OccursAt(s, b, pc) /\ AtomAt(s, d2) = "." /\ Upper(AtomAt(s, d2 + 1)) = "PARENT_ID"
         /\ ~IsWordAt(s, d2 + 2)
      THEN d2 + 2 ELSE 0

WrongJoinWith(s, p, pc) ==
  p # << >> /\ pc # << >> /\ \E i \in 1..Len(s) : WrongJoinEnd(s, i, p, pc) # 0

HasWrongJoin(s) ==
  WrongJoinWith(s, TableAlias(s, "FROM", "PARENTS"), TableAlias(s, "JOIN", "PARENT_CONTACTS"))

\* \bIN\s*\(\s*SELECT\b at i: the index of SELECT, else 0
InSelectAt(s, i) ==
  LET o == SkipSpaces(s, i + 1)
      q == SkipSpaces(s, o + 1)
  IN  IF KwAt(s, i, "IN") /\ AtomAt(s, o) = "(" /\ Upper(AtomAt(s, q)) = "SELECT"
      THEN q ELSE 0

\* \bIN\s*\(\s*SELECT\b[\s\S]*?\bLIMIT\b
HasInSubqueryWithLimit(s) ==
  \E i \in 1..Len(s) : \E q \in {InSelectAt(s, i)} :
     /\ q # 0 /\ ~IsWordAt(s, q + 1)
     /\ \E l \in (q + 1)..Len(s) : KwWordAt(s, l, "LIMIT")

\* <lead>is_verified\s*=\s*1\b with is_verified at i: the index after the match, else 0
IsVerifiedEnd(s, i) ==
  LET e == SkipSpaces(s, i + 1)
      n == SkipSpaces(s, e + 1)
  IN  IF /\ Upper(AtomAt(s, i)) = "IS_VERIFIED" /\ AtomAt(s, e) = "="
         /\ AtomAt(s, n) = "1" /\ ~IsWordAt(s, n + 1)
      THEN n + 1 ELSE 0

\* \bis_verified\s*=\s*1\b
HasIsVerifiedFilter(s) ==
  \E i \in 1..Len(s) : ~IsWordAt(s, i - 1) /\ IsVerifiedEnd(s, i) # 0

LimitBeforeOrderBy(order_idx, limit_idx) ==
  order_idx # 0 /\ limit_idx # 0 /\ limit_idx < order_idx

HasLimitBeforeOrderBy(s) ==
  LimitBeforeOrderBy(find_top_level_clause_index(s, "ORDER BY"),
                     find_top_level_clause_index(s, "LIMIT"))

\* ^\s*SELECT\s+DISTINCT\b : the index of DISTINCT, else 0 (s already stripped)
SelectDistinctAt(s) ==
  LET d == SkipSpaces(s, 2)
  IN  IF /\ Len(s) >= 3 /\ Upper(s[1]) = "SELECT" /\ IsSpace(s[2])
         /\ Upper(AtomAt(s, d)) = "DISTINCT" /\ ~IsWordAt(s, d + 1)
      THEN d ELSE 0

\* ^\s*SELECT\s+DISTINCT\s+([\s\S]+?)\s+FROM\s+ : group 1
\* the group that starts at g and ends before the whitespace run in front of f
LazyGroupBefore(s, g, f) ==
  IF f # 0 THEN [ok |-> TRUE, from |-> g, to |-> RunStart(s, f)]
  ELSE [ok |-> FALSE, from |-> 0, to |-> 0]

DistinctListAfter(s, d) ==
  LET g == SkipSpaces(s, d + 1)
  IN  IF d # 0 /\ IsSpace(AtomAt(s, d + 1)) /\ g <= Len(s)
      THEN LazyGroupBefore(s, g, First({k \in (g + 1)..Len(s) : FromAfterSpace(s, k)}))
      ELSE [ok |-> FALSE, from |-> 0, to |-> 0]

DistinctSelectSpan(s) == DistinctListAfter(s, SelectDistinctAt(s))

\* \bORDER\s+BY\s+([\s\S]+?)(?:\bLIMIT\b|;|$) at i: group 1
\* the index stop, or the end of the text when there is no stop
StopOrEnd(s, stop) == IF stop = 0 THEN Len(s) + 1 ELSE stop

OrderListAfter(s, i, b) ==
  LET g == SkipSpaces(s, b + 1)
  IN  IF b # 0 /\ IsSpace(AtomAt(s, b + 1)) /\ g <= Len(s)
      THEN [ok |-> TRUE, start |-> i, from |-> g,
            to |-> StopOrEnd(s, First({q \in (g + 1)..Len(s) :
                                         KwWordAt(s, q, "LIMIT") \/ s[q] = ";"}))]
      ELSE [ok |-> FALSE, start |-> 0, from |-> 0, to |-> 0]

OrderBySpanAt(s, i) == OrderListAfter(s, i, Kw2At(s, i, "ORDER", "BY"))

\* re.search of the pattern: its first match (no match at index 0)
OrderBySpan(s) == OrderBySpanAt(s, First({k \in 1..Len(s) : OrderBySpanAt(s, k).ok}))

DirNames == {"ASC", "DESC"}

\* re.sub(r"\s+(ASC|DESC)\b", "", e)
RECURSIVE RemoveSpacedDir(_)
RemoveSpacedDir(e) ==
  LET k == First({j \in 2..Len(e) : /\ Upper(e[j]) \in DirNames /\ IsSpace(e[j - 1])
                                    /\ ~IsWordAt(e, j + 1)})
  IN  IF k = 0 THEN e
      ELSE Slice(e, 1, RunStart(e, k)) \o RemoveSpacedDir(From(e, k + 1))

\* _strip_dir of SQLAgent._static_sql_issues
strip_dir(e) == Strip(RemoveSpacedDir(e))

\* the ORDER BY expressions that the DISTINCT projection does not hold
MissingFrom(select_part, order_exprs) ==
  {e \in {strip_dir(order_exprs[k]) : k \in 1..Len(order_exprs)} : ~Contains(select_part, e)}

MissingBetween(s, m_sel, m_ob) ==
  IF SelectDistinctAt(s) # 0 /\ m_sel.ok /\ m_ob.ok
  THEN MissingFrom(Slice(s, m_sel.from, m_sel.to),
                   StrippedItems(Slice(s, m_ob.from, m_ob.to)))
  ELSE {}

MissingOrderExprs(s) == MissingBetween(s, DistinctSelectSpan(s), OrderBySpan(s))

HasDistinctOrderByMismatch(s) == MissingOrderExprs(s) # {}

\* str.upper().startswith("SELECT") of the stripped text
StartsWithSelect(sql) == Upper(AtomAt(Strip(sql), 1)) = "SELECT"

\* the Defect tags of the detector
TargetedIssues ==
  {"wrong_join_parent_contacts", "in_subquery_with_limit", "unwarranted_is_verified_filter",
   "top_level_limit_before_orderby", "distinct_orderby_not_in_select"}

AllIssues ==
  TargetedIssues \cup {"not_select", "aggregate_with_non_aggregate_without_group_by",
                       "list_intent_but_aggregate"}

HasComma(t) == \E i \in 1..Len(t) : t[i] = ","

IssuesOfStripped(s, natural_query, agg) ==
      {t \in AllIssues :
         \/ t = "not_select" /\ ~StartsWithSelect(s)
         \/ t = "aggregate_with_non_aggregate_without_group_by"
               /\ agg /\ HasComma(SelectList(s)) /\ ~HasGroupBy(s)
         \/ t = "list_intent_but_aggregate" /\ wants_list(natural_query) /\ agg
         \/ t = "wrong_join_parent_contacts" /\ HasWrongJoin(s)
         \/ t = "in_subquery_with_limit" /\ HasInSubqueryWithLimit(s)
         \/ t = "unwarranted_is_verified_filter"
               /\ ~wants_verified(natural_query) /\ HasIsVerifiedFilter(s)
         \/ t = "top_level_limit_before_orderby" /\ HasLimitBeforeOrderBy(s)
         \/ t = "distinct_orderby_not_in_select" /\ HasDistinctOrderByMismatch(s)}

IssuesOf(s, natural_query) == IssuesOfStripped(s, natural_query, HasAggregateCall(s))

static_sql_issues(sql, natural_query) == IssuesOf(Strip(sql), natural_query)

(***************************************************************************)
(* The deterministic rewrites of SQLAgent._review_and_fix_sql              *)
(***************************************************************************)
\* re.sub(pattern, repl, s): End(s, i) is the index after the match of the
\* pattern that starts at i, or 0; the matches are taken left to right
RECURSIVE ReSub(_, _, _, _)
ReSub(s, i, End(_, _), repl) ==
  LET m == First({k \in i..Len(s) : End(s, k) # 0})
  IN  IF m = 0 THEN From(s, i)
      ELSE Slice(s, i, m) \o repl \o ReSub(s, End(s, m), End, repl)

\* the wrong-join repair: ON p.parent_id = pc.parent_id becomes ON p.id = pc.parent_id
FixJoinWith(sql, issues, p_alias, pc_alias) ==
  IF p_alias # << >> /\ pc_alias # << >> /\ "wrong_join_parent_contacts" \in issues
  THEN ReSub(sql, 1, LAMBDA s, i : WrongJoinEnd(s, i, p_alias, pc_alias),
             <<"ON", " ">> \o p_alias \o <<".", "id", " ", "=", " ">>
               \o pc_alias \o <<".", "parent_id">>)
  ELSE sql

\* a repair that leaves the join condition as it was
FixJoinKeepingKey(sql, issues) == sql

fix_wrong_join(sql, issues) ==
  FixJoinWith(sql, issues, TableAlias(sql, "FROM", "PARENTS"),
              TableAlias(sql, "JOIN", "PARENT_CONTACTS"))

\* \w+\.is_verified\s*=\s*1\b with the word at w: the index after the match, else 0
QualifiedIsVerifiedEnd(s, w) ==
  IF IsWordAt(s, w) /\ AtomAt(s, WordEnd(s, w)) = "."
  THEN IsVerifiedEnd(s, WordEnd(s, w) + 1) ELSE 0

\* \s+AND\s+\w+\.is_verified\s*=\s*1\b at i
AndIsVerifiedEnd(s, i) ==
  LET a == SkipSpaces(s, i)
  IN  IF /\ IsSpace(AtomAt(s, i)) /\ Upper(AtomAt(s, a)) = "AND"
         /\ IsSpace(AtomAt(s, a + 1))
      THEN QualifiedIsVerifiedEnd(s, SkipSpaces(s, a + 1)) ELSE 0

\* \bWHERE\s+\w+\.is_verified\s*=\s*1\b at i
WhereIsVerifiedEnd(s, i) ==
  IF KwAt(s, i, "WHERE") /\ IsSpace(AtomAt(s, i + 1))
  THEN QualifiedIsVerifiedEnd(s, SkipSpaces(s, i + 1)) ELSE 0

\* \bWHERE\s+\w+\.is_verified\s*=\s*1\s+AND\s+ at i
AndAfter(s, e) ==
  LET a == SkipSpaces(s, e)
  IN  IF /\ e # 0 /\ IsSpace(AtomAt(s, e)) /\ Upper(AtomAt(s, a)) = "AND"
         /\ IsSpace(AtomAt(s, a + 1))
      THEN SkipSpaces(s, a + 1) ELSE 0

WhereIsVerifiedAndEnd(s, i) == AndAfter(s, WhereIsVerifiedEnd(s, i))

\* SQLAgent._remove_unwarranted_is_verified
remove_unwarranted_is_verified(sql) ==
  LET s1 == ReSub(sql, 1, AndIsVerifiedEnd, << >>)
      s2 == ReSub(s1, 1, WhereIsVerifiedAndEnd, <<" ", "WHERE", " ">>)
  IN  ReSub(s2, 1, WhereIsVerifiedEnd, <<" ">>)

\* SQLAgent._reorder_top_level_order_limit
IndexOr(top, fallback) == IF top = 0 THEN fallback ELSE top

ReorderAt(s, order_idx, limit_idx, semi_idx) ==
  IF order_idx = 0 \/ limit_idx = 0 THEN s
  ELSE IF limit_idx < order_idx
       THEN RStrip(Slice(s, 1, limit_idx)) \o <<"\n">>
              \o Strip(Slice(s, order_idx, StopOrEnd(s, semi_idx))) \o <<" ">>
              \o Strip(Slice(s, limit_idx, order_idx))
              \o (IF semi_idx = 0 THEN << >> ELSE From(s, semi_idx))
       ELSE s

reorder_top_level_order_limit(s) ==
  ReorderAt(s,
            IndexOr(find_top_level_clause_index(s, "ORDER BY"), RFindClause(s, "ORDER BY")),
            IndexOr(find_top_level_clause_index(s, "LIMIT"), RFindClause(s, "LIMIT")),
            Last({i \in 1..Len(s) : s[i] = ";"}))

\* \bFROM\s+(?:lead_management\.)?parents\s+(\w+) at i: the span of the alias
SkipSchema(s, t) ==
  IF Upper(AtomAt(s, t)) = "LEAD_MANAGEMENT" /\ AtomAt(s, t + 1) = "." THEN t + 2 ELSE t

AliasAfterParents(s, i, n) ==
  IF KwAt(s, i, "FROM") /\ IsSpace(AtomAt(s, i + 1)) /\ Upper(AtomAt(s, n)) = "PARENTS"
  THEN AliasAfterTable(s, n)
  ELSE [ok |-> FALSE, from |-> 0, to |-> 0]

ParentsAliasAt(s, i) == AliasAfterParents(s, i, SkipSchema(s, SkipSpaces(s, i + 1)))

\* the first match of the pattern above (no match at index 0)
ParentsAlias(s) == ParentsAliasAt(s, First({k \in 1..Len(s) : ParentsAliasAt(s, k).ok}))

\* the identifiers of the catalogue that end with another one: the pattern
\* of step 2 is not anchored, so "sp.id" holds a match of "p.id"
EndsWithAtom(a, tail) == Upper(a) = Upper(tail) \/ <<a, tail>> \in {<<"sp", "p">>}

\* <alias>\.id\s+IN\s*\(\s*SELECT with the alias at i: the index of SELECT, else 0
AliasIdInSelectAt(s, i, alias) ==
  LET d == i + Len(alias)
      n == SkipSpaces(s, d + 2)
  IN  IF /\ i >= 1 /\ d <= Len(s) /\ EndsWithAtom(s[i], alias[1])
         /\ \A k \in 2..Len(alias) : Upper(s[i + k - 1]) = Upper(alias[k])
         /\ AtomAt(s, d) = "." /\ Upper(AtomAt(s, d + 1)) = "ID" /\ IsSpace(AtomAt(s, d + 2))
      THEN InSelectAt(s, n) ELSE 0

\* [\s\S]+?\) after the SELECT at q: the index of the closing parenthesis, else 0
LazyClose(s, q) == First({k \in (q + 2)..Len(s) : s[k] = ")"})

\* \bWHERE\s+<alias>\.id\s+IN\s*\(\s*SELECT[\s\S]+?\)\s* at i: the index after it, else 0
CloseAfter(s, q) ==
  IF q # 0 /\ LazyClose(s, q) # 0 THEN SkipSpaces(s, LazyClose(s, q) + 1) ELSE 0

WhereAliasInEnd(s, i, alias) ==
  LET a == SkipSpaces(s, i + 1)
  IN  IF /\ KwAt(s, i, "WHERE") /\ IsSpace(AtomAt(s, i + 1))
         /\ Upper(AtomAt(s, a)) = Upper(alias[1])
      THEN CloseAfter(s, AliasIdInSelectAt(s, a, alias)) ELSE 0

\* the IN pattern of step 2 matches at i
InSubqueryAt(sql, i, alias) ==
  \E q \in {AliasIdInSelectAt(sql, i, alias)} : q # 0 /\ LazyClose(sql, q) # 0

\* m_in.group(1).strip()
InnerSelectAt(sql, q) == Strip(Slice(sql, q, LazyClose(sql, q)))

JoinClause(inner_select, alias) ==
  <<"INNER", " ", "JOIN", " ", "(">> \o inner_select
    \o <<")", " ", "AS", " ", "recent_parent_ids", " ", "ON", " ">>
    \o alias \o <<".", "id", " ", "=", " ", "recent_parent_ids", ".", "parent_id">>

InsertJoin(sql, insert_pos, join_clause) ==
  Slice(sql, 1, insert_pos) \o <<"\n", " ">> \o join_clause \o From(sql, insert_pos)

RewriteInAt(sql, m_alias, alias, m_in) ==
  IF ~m_alias.ok THEN sql
  ELSE IF m_in = 0 THEN sql
  ELSE ReSub(InsertJoin(sql, m_alias.to,
                        JoinClause(InnerSelectAt(sql, AliasIdInSelectAt(sql, m_in, alias)),
                                   alias)),
             1, LAMBDA s, i : WhereAliasInEnd(s, i, alias), <<" ">>)

RewriteInAlias(sql, m_alias, alias) ==
  RewriteInAt(sql, m_alias, alias, First({i \in 1..Len(sql) : InSubqueryAt(sql, i, alias)}))

RewriteInFrom(sql, m_alias) == RewriteInAlias(sql, m_alias, GroupText(sql, m_alias))

\* SQLAgent._rewrite_in_with_limit_to_join
rewrite_in_with_limit_to_join(sql) == RewriteInFrom(sql, ParentsAlias(sql))

\* \bLIMIT\s+[\d\s,]+(?:;|$) at l: the index after the match, else 0
LimitTailEnd(s, l) ==
  LET r == First({k \in (l + 1)..(Len(s) + 1) :
                    /\ \A j \in (l + 1)..(k - 1) : IsSpace(s[j]) \/ IsDigitAtom(s[j]) \/ s[j] = ","
                    /\ (k = Len(s) + 1 \/ ~(IsSpace(s[k]) \/ IsDigitAtom(s[k]) \/ s[k] = ","))})
  IN  IF KwAt(s, l, "LIMIT") /\ IsSpace(AtomAt(s, l + 1)) /\ r >= l + 3
      THEN IF r = Len(s) + 1 THEN r ELSE IF s[r] = ";" THEN r + 1 ELSE 0
      ELSE 0

\* m_limit.group(0).strip() of the first match, "" when there is none
LimitClauseAt(s, l) == IF l = 0 THEN << >> ELSE Strip(Slice(s, l, LimitTailEnd(s, l)))

LimitClause(s) == LimitClauseAt(s, First({k \in 1..Len(s) : LimitTailEnd(s, k) # 0}))

\* str.rstrip(";")
RStripSemi(t) == Slice(t, 1, Last({j \in 1..Len(t) : t[j] # ";"}) + 1)

\* the decimal digits of a small position
DigitsOf(n) == CASE n = 1 -> "1" [] n = 2 -> "2" [] n = 3 -> "3" [] OTHER -> "0"

\* \b(ASC|DESC)\b in an ORDER BY item: the direction in upper case, default ASC
DirectionAt(item, k) == IF k = 0 THEN "ASC" ELSE Upper(item[k])

ItemDirection(item) ==
  DirectionAt(item, First({j \in 1..Len(item) : Upper(item[j]) \in DirNames
                             /\ ~IsWordAt(item, j - 1) /\ ~IsWordAt(item, j + 1)}))

\* re.sub(r"\bASC\b|\bDESC\b", "", item).strip()
ItemExpr(item) ==
  Strip(SelectSeq([j \in 1..Len(item) |->
                     IF Upper(item[j]) \in DirNames /\ ~IsWordAt(item, j - 1)
                        /\ ~IsWordAt(item, j + 1) THEN "" ELSE item[j]],
                  LAMBDA a : a # ""))

OrderAlias(idx) == <<"__order_col", DigitsOf(idx)>>

\* an identifier [A-Za-z_][A-Za-z0-9_]* that starts at k: the index after it, else 0
IdentEnd(s, k) == IF k >= 1 /\ k <= Len(s) /\ IsIdentAtom(s[k]) THEN WordEnd(s, k) ELSE 0

\* the output label of one item of the DISTINCT projection
LabelAt(item, at) == Slice(item, at, IdentEnd(item, at))

OuterLabelWith(item, n, m_as, m_col, last_id) ==
  IF m_as # 0 THEN LabelAt(item, SkipSpaces(item, m_as + 1))
  ELSE IF m_col # 0 THEN LabelAt(item, IdentEnd(item, m_col) + 1)
  \* re.findall: the last identifier starts at the first letter atom of the last
  \* word that holds one
  ELSE IF last_id # 0
       THEN LabelAt(item, First({k \in 1..last_id : /\ IsIdentAtom(item[k])
                                                   /\ \A j \in k..last_id : IsWordAt(item, j)}))
  ELSE <<"col_", DigitsOf(n)>>

\* \w+\.\w+ of identifiers at k
QualifiedAt(item, k) ==
  \E e \in {IdentEnd(item, k)} :
     ~IsWordAt(item, k - 1) /\ e # 0 /\ AtomAt(item, e) = "." /\ IdentEnd(item, e + 1) # 0

OuterLabel(item, n) ==
  OuterLabelWith(item, n,
                 First({k \in 1..Len(item) :
                          /\ KwAt(item, k, "AS") /\ IsSpace(AtomAt(item, k + 1))
                          /\ IdentEnd(item, SkipSpaces(item, k + 1)) # 0}),
                 First({k \in 1..Len(item) : QualifiedAt(item, k)}),
                 Last({k \in 1..Len(item) : IsIdentAtom(item[k])}))

AggPart(item, i) ==
  << IF ItemDirection(item) = "DESC" THEN "MAX" ELSE "MIN", "(" >>
    \o ItemExpr(item) \o <<")", " ", "AS", " ">> \o OrderAlias(i)

AggParts(items) == [i \in 1..Len(items) |-> AggPart(items[i], i)]

OrderOuterParts(items) ==
  [i \in 1..Len(items) |-> OrderAlias(i) \o <<" ", ItemDirection(items[i])>>]

OuterLabels(select_items) ==
  [i \in 1..Len(select_items) |-> OuterLabel(select_items[i], i)]

InnerSelect(select_part, agg_parts, body_until_order) ==
  <<"SELECT", " ">> \o select_part \o <<",", " ">>
    \o Join(agg_parts, <<",", " ">>) \o <<"\n">> \o body_until_order
    \o <<"\n", " ", "GROUP", " ", "BY", " ">> \o select_part

OuterSelect(outer_labels, inner_select, order_outer_parts) ==
  <<"SELECT", " ">> \o Join(outer_labels, <<",", " ">>)
    \o <<" ", "FROM", " ", "(", "\n">> \o inner_select
    \o <<"\n", ")", " ", "AS", " ", "__t", "\n", " ", "ORDER", " ", "BY", " ">>
    \o Join(order_outer_parts, <<",", " ">>)

WithLimit(outer_select, limit_clause) ==
  IF limit_clause # << >> THEN outer_select \o <<" ">> \o RStripSemi(limit_clause)
  ELSE outer_select

WithSemi(s, text) == IF AtomAt(s, Len(s)) = ";" THEN text \o <<";">> ELSE text

DistinctRewrite(s, select_part, m_from, m_order, raw_order_items) ==
  WithSemi(s, WithLimit(OuterSelect(OuterLabels(StrippedItems(select_part)),
                                    InnerSelect(select_part, AggParts(raw_order_items),
                                                RStrip(Slice(s, m_from, m_order.start))),
                                    OrderOuterParts(raw_order_items)),
                        LimitClause(s)))

FixDistinctAt(sql, s, m_sel, m_from, m_order) ==
  IF SelectDistinctAt(s) = 0 \/ ~m_sel.ok \/ ~m_order.ok \/ m_from = 0 THEN sql
  ELSE DistinctRewrite(s, Strip(Slice(s, m_sel.from, m_sel.to)), m_from, m_order,
                       StrippedItems(Strip(Slice(s, m_order.from, m_order.to))))

FixDistinctStripped(sql, s) ==
  FixDistinctAt(sql, s, DistinctSelectSpan(s),
                First({k \in 1..Len(s) : KwWordAt(s, k, "FROM")}), OrderBySpan(s))

\* SQLAgent._fix_distinct_orderby_not_in_select
fix_distinct_orderby_not_in_select(sql) == FixDistinctStripped(sql, Strip(sql))

(***************************************************************************)
(* Messages.  A message (an error text, a reply to the user) is the        *)
(* sequence of its parts; an f-string concatenates parts, `x in text`      *)
(* asks whether the part x occurs.  The fixed Chinese sentences of the     *)
(* code are written as one English part each.                              *)
(***************************************************************************)
PartOf(x, text) == \E i \in 1..Len(text) : text[i] = x

\* "查询执行遇到问题，请稍后重试或简化查询。"
GenericExecuteError == <<"query execution met a problem, retry later or simplify the query">>

\* "只允许执行SELECT查询"
OnlySelectError == <<"only SELECT queries may be executed">>

\* "SQL查询包含危险关键词: {keyword}"
DangerousKeywordError(keyword) == <<"the SQL query holds a dangerous keyword: ", keyword>>

LimitInSignature == "LIMIT & IN/ALL/ANY/SOME subquery"

IncompatibleDistinctSignature == "incompatible with DISTINCT"

NotInSelectListSignature == "not in SELECT list"

(***************************************************************************)
(* MessageFormatter: the payloads of execute_sql and query                 *)
(***************************************************************************)
NoText == << >>

format_error_response(error) ==
  [success |-> FALSE, error |-> error, query |-> NoText, total |-> 0,
   natural_query |-> NoText, generated_sql |-> NoText]

format_query_result(total, query) ==
  [success |-> TRUE, error |-> NoText, query |-> query, total |-> total,
   natural_query |-> NoText, generated_sql |-> NoText]

(***************************************************************************)
(* SQLAgent.execute_sql: the Guarded Executor.  script is what the         *)
(* database answers to the 1st, 2nd and 3rd statement it is handed:        *)
(* [ok, rows, err].  The result is [ret, db_log], db_log being the         *)
(* statements handed to the database, in order.                            *)
(***************************************************************************)
DangerousKeywords ==
  {"DROP", "DELETE", "UPDATE", "INSERT", "ALTER", "CREATE", "TRUNCATE", "REPLACE",
   "MERGE", "GRANT", "REVOKE"}

\* dangerous_pattern.search(sql): the index of the first whole-word match, else 0
DangerousAt(sql) ==
  First({i \in 1..Len(sql) : \E kw \in DangerousKeywords : KwWordAt(sql, i, kw)})

\* the exception of the pre-flight checks, NoText when the query passes
PreflightError(sql) ==
  IF ~StartsWithSelect(sql) THEN OnlySelectError
  ELSE IF DangerousAt(sql) # 0 THEN DangerousKeywordError(Upper(sql[DangerousAt(sql)]))
  ELSE NoText

\* a retry block that does not look whether the rewrite changed the query
RetryWhenMatched(matches, sql, rewritten) == [try |-> matches, rewritten |-> rewritten]

\* an executor that answers a failure with the text of the error it met
ExecuteExposingError(sql, script, r1, r2) ==
  IF PreflightError(sql) # NoText
  THEN [ret |-> format_error_response(PreflightError(sql)), db_log |-> << >>]
  ELSE IF script[1].ok
  THEN [ret |-> format_query_result(script[1].rows, sql), db_log |-> <<sql>>]
  ELSE [ret |-> format_error_response(script[1].err), db_log |-> <<sql>>]

\* a retry block: [try, rewritten]
RetryWith(matches, sql, rewritten) ==
  [try |-> matches /\ rewritten # NoText /\ rewritten # sql, rewritten |-> rewritten]

\* the first retry block: the error names LIMIT in an IN subquery
LimitInRetry(sql, err_text) ==
  RetryWith(PartOf(LimitInSignature, err_text), sql, rewrite_in_with_limit_to_join(sql))

\* the second retry block: the error names DISTINCT with ORDER BY
DistinctRetry(sql, err_text) ==
  RetryWith(\/ PartOf(IncompatibleDistinctSignature, err_text)
            \/ /\ PartOf(NotInSelectListSignature, err_text)
               /\ \E i \in 1..Len(sql) : Upper(sql[i]) = "DISTINCT",
            sql, fix_distinct_orderby_not_in_select(sql))

ExecuteWith(sql, script, r1, r2) ==
  LET n2 == IF r1.try THEN 3 ELSE 2
      failure == format_error_response(GenericExecuteError)
  IN  IF PreflightError(sql) # NoText THEN [ret |-> failure, db_log |-> << >>]
      ELSE IF script[1].ok
      THEN [ret |-> format_query_result(script[1].rows, sql), db_log |-> <<sql>>]
      ELSE IF r1.try /\ script[2].ok
      THEN [ret |-> format_query_result(script[2].rows, r1.rewritten),
            db_log |-> <<sql, r1.rewritten>>]
      ELSE IF r2.try /\ script[n2].ok
      THEN [ret |-> format_query_result(script[n2].rows, r2.rewritten),
            db_log |-> (IF r1.try THEN <<sql, r1.rewritten>> ELSE <<sql>>) \o <<r2.rewritten>>]
      ELSE [ret |-> failure,
            db_log |-> <<sql>> \o (IF r1.try THEN <<r1.rewritten>> ELSE << >>)
                         \o (IF r2.try THEN <<r2.rewritten>> ELSE << >>)]

execute_sql(sql, script) ==
  ExecuteWith(sql, script, LimitInRetry(sql, script[1].err), DistinctRetry(sql, script[1].err))

(***************************************************************************)
(* SQLAgent._rule_based_sql: the templates of the rule-based generator.    *)
(* The Chinese status literals are the atoms of CjkAtoms.                  *)
(***************************************************************************)
\* 今天新增家长数量
TodayCountSql ==
  <<"SELECT", " ", "COUNT", "(", "*", ")", " ", "AS", " ", "total", " ", "FROM", " ",
    "parents", " ", "WHERE", " ", "DATE", "(", "created_at", ")", " ", "=", " ",
    "CURDATE", "(", ")">>

\* 今天的家长名称/名单
TodayListSql ==
  <<"SELECT", " ", "parent_code", " ", "FROM", " ", "parents", " ", "WHERE", " ",
    "DATE", "(", "created_at", ")", " ", "=", " ", "CURDATE", "(", ")", " ", "ORDER",
    " ", "BY", " ", "created_at", " ", "DESC", " ", "LIMIT", " ", "50">>

\* 总家长数
TotalCountSql ==
  <<"SELECT", " ", "COUNT", "(", "*", ")", " ", "AS", " ", "total", " ", "FROM", " ",
    "parents">>

\* 跟进中家长数量
FollowingCountSql ==
  <<"SELECT", " ", "COUNT", "(", "*", ")", " ", "AS", " ", "total", " ", "FROM", " ",
    "parents", " ", "WHERE", " ", "current_status", " ", "IN", " ", "(", "'",
    "hehuorengenjinzhong", "'", ",", "'", "xiaoshougenjinzhong", "'", ")">>

\* 本月成交金额
MonthAmountSql ==
  <<"SELECT", " ", "COALESCE", "(", "SUM", "(", "deal_amount", ")", ",", " ", "0", ")",
    " ", "AS", " ", "total_amount", " ", "FROM", " ", "parents", " ", "WHERE", " ",
    "current_status", " ", "=", " ", "'", "yichengjiao", "'", " ", "AND", " ", "MONTH",
    "(", "updated_at", ")", " ", "=", " ", "MONTH", "(", "CURDATE", "(", ")", ")", " ",
    "AND", " ", "YEAR", "(", "updated_at", ")", " ", "=", " ", "YEAR", "(", "CURDATE",
    "(", ")", ")">>

\* 本周/这周 名单列表
ThisWeekListSql ==
  <<"SELECT", " ", "parent_code", " ", "FROM", " ", "parents", " ", "WHERE", " ",
    "YEARWEEK", "(", "created_at", ",", " ", "1", ")", " ", "=", " ", "YEARWEEK", "(",
    "CURDATE", "(", ")", ",", " ", "1", ")", " ", "ORDER", " ", "BY", " ",
    "created_at", " ", "DESC", " ", "LIMIT", " ", "50">>

\* 过去一周 名单列表
PastWeekListSql ==
  <<"SELECT", " ", "parent_code", " ", "FROM", " ", "parents", " ", "WHERE", " ",
    "DATE", "(", "created_at", ")", " ", ">", "=", " ", "DATE_SUB", "(", "CURDATE",
    "(", ")", ",", " ", "INTERVAL", " ", "7", " ", "DAY", ")", " ", "ORDER", " ", "BY",
    " ", "created_at", " ", "DESC", " ", "LIMIT", " ", "50">>

\* 已成交家长列表
DealListSql ==
  <<"SELECT", " ", "parent_code", ",", " ", "deal_amount", ",", " ", "updated_at", " ",
    "FROM", " ", "parents", " ", "WHERE", " ", "current_status", " ", "=", " ", "'",
    "yichengjiao", "'", " ", "ORDER", " ", "BY", " ", "updated_at", " ", "DESC", " ",
    "LIMIT", " ", "50">>

\* 状态统计
StatusStatsSql ==
  <<"SELECT", " ", "current_status", " ", "AS", " ", "status", ",", " ", "COUNT", "(",
    "*", ")", " ", "AS", " ", "count", " ", "FROM", " ", "parents", " ", "GROUP", " ",
    "BY", " ", "current_status">>

\* 查询家长编号详细
ParentDetailSql(parent_code) ==
  <<"SELECT", " ", "p", ".", "parent_code", ",", " ", "p", ".", "source_platform", ",",
    " ", "p", ".", "current_status", ",", " ", "p", ".", "partner_id", ",", " ", "p",
    ".", "salesperson_id", ",", " ", "p", ".", "intent_level", ",", " ", "p", ".",
    "deal_amount", ",", " ", "p", ".", "created_at", ",", " ", "p", ".", "updated_at",
    " ", "FROM", " ", "parents", " ", "p", " ", "WHERE", " ", "p", ".", "parent_code",
    " ", "=", " ", "'">>
    \o parent_code \o <<"'">>
\* "LLM未配置，且无法根据规则生成SQL。请配置有效的OPENAI_API_KEY或使用支持的查询句式。"
NoRuleError == <<"LLM is not configured and no rule yields SQL">>

\* a function of the agent that may raise: [ok, sql, err]
Returned(sql) == [ok |-> TRUE, sql |-> sql, err |-> NoText]

Raised(err) == [ok |-> FALSE, sql |-> NoText, err |-> err]

\* re.search(r"p\s*\d{9,}", query, re.IGNORECASE): the parent codes of the catalogue
ParentCodePhrases == {"P202511057549", "p202511057549"}

HasParentCode(query) == \E i \in 1..Len(query) : query[i] \in ParentCodePhrases

\* m.group(0).upper().replace(" ", "")
ParentCodeAtoms == <<"P", "202511057549">>

rule_based_sql(query) ==
  LET q == LowerQuestion(query)
      has(kw) == HasPhrase(q, kw)
  IN  IF (has("jintian") \/ has("jinri")) /\ has("xinzeng") /\ has("jiazhang")
         /\ ~wants_list(query)
      THEN Returned(TodayCountSql)
      ELSE IF (has("jintian") \/ has("jinri")) /\ wants_list(query)
      THEN Returned(TodayListSql)
      ELSE IF (has("zong") \/ has("duoshao")) /\ has("jiazhang") /\ ~has("genjin")
      THEN Returned(TotalCountSql)
      ELSE IF has("genjin") /\ (has("duoshao") \/ has("youduoshao") \/ has("shuliang"))
      THEN Returned(FollowingCountSql)
      ELSE IF has("benyue") /\ has("chengjiao") /\ has("jine")
      THEN Returned(MonthAmountSql)
      ELSE IF (has("benzhou") \/ has("zhezhou") \/ has("muqianzheyizhou")) /\ wants_list(query)
      THEN Returned(ThisWeekListSql)
      ELSE IF (has("guoquyizhou") \/ has("jinyizhou") \/ has("zuijinyizhou") \/ has("yizhou"))
              /\ wants_list(query)
      THEN Returned(PastWeekListSql)
      ELSE IF has("chaxun") /\ HasParentCode(query)
      THEN Returned(ParentDetailSql(ParentCodeAtoms))
      ELSE IF has("yichengjiao") /\ (has("chaxun") \/ has("suoyou") \/ has("liebiao"))
      THEN Returned(DealListSql)
      ELSE IF has("zhuangtai") /\ (has("tongji") \/ has("fenbu"))
      THEN Returned(StatusStatsSql)
      ELSE Raised(NoRuleError)

(***************************************************************************)
(* The completion service.  A reply is [kind, content]: kind "ok" carries  *)
(* the content of choices[0].message, "timeout" is a transport error of    *)
(* the request, "http_error" a response whose status is not 200.           *)
(***************************************************************************)
\* the text of the exception requests.post raises
TransportErrorText == <<"HTTPSConnectionPool: Read timed out.">>

\* f"LLM接口错误: {resp.status_code} {resp.text}"
HttpErrorText == <<"LLM interface error: ", "500", " ", "upstream response body">>

\* "LLM无返回内容"
NoContentError == <<"the LLM returned no content">>

\* the text of the exception chain.ainvoke raises for a failed call
ChainErrorText(reply) ==
  IF reply.kind = "timeout" THEN <<"Request timed out.">>
  ELSE <<"Error code: ", "500", " - ", "upstream response body">>

\* the clean-up of markdown: a leading "```sql", a leading "```", a trailing "```"
DropSqlFence(t) == IF AtomAt(t, 1) = "[fence]" /\ AtomAt(t, 2) = "sql" THEN From(t, 3) ELSE t

DropFence(t) == IF AtomAt(t, 1) = "[fence]" THEN From(t, 2) ELSE t

DropTrailingFence(t) == IF AtomAt(t, Len(t)) = "[fence]" THEN Slice(t, 1, Len(t)) ELSE t

StripFences(t) == DropTrailingFence(DropFence(DropSqlFence(t)))

\* requests.post, the status check and the extraction of the content, then the
\* clean-up: shared by _llm_review_sql_openai and _llm_generate_sql_openai
CompletionSql(reply) ==
  IF reply.kind = "timeout" THEN Raised(TransportErrorText)
  ELSE IF reply.kind = "http_error" THEN Raised(HttpErrorText)
  ELSE IF reply.content = NoText THEN Raised(NoContentError)
  ELSE Returned(Strip(StripFences(Strip(reply.content))))

\* SQLAgent._llm_review_sql_openai
llm_review_sql_openai(reply) == CompletionSql(reply)

\* SQLAgent._llm_generate_sql_openai: every failure of the call falls back to the rules
OrRules(out, query) == IF out.ok THEN out ELSE rule_based_sql(query)

llm_generate_sql_openai(query, reply) == OrRules(CompletionSql(reply), query)

(***************************************************************************)
(* SQLAgent._review_and_fix_sql                                            *)
(***************************************************************************)
\* the rule-based repairs, in the order of the code
RewriteInIf(s, issues) ==
  IF "in_subquery_with_limit" \in issues THEN rewrite_in_with_limit_to_join(s) ELSE s

RemoveVerifiedIf(s, issues) ==
  IF "unwarranted_is_verified_filter" \in issues THEN remove_unwarranted_is_verified(s) ELSE s

FixDistinctIf(s, issues) ==
  IF "distinct_orderby_not_in_select" \in issues
  THEN fix_distinct_orderby_not_in_select(s) ELSE s

deterministic_rewrite(sql, issues) ==
  FixDistinctIf(reorder_top_level_order_limit(
                  RemoveVerifiedIf(RewriteInIf(fix_wrong_join(sql, issues), issues), issues)),
                issues)

\* a review that asks the service whether or not the detector found a defect
ReviewAlwaysAsking(sql, issues, fixed) ==
  IF fixed.ok /\ fixed.sql # NoText THEN [sql |-> fixed.sql, llm_log |-> <<"review">>]
  ELSE [sql |-> deterministic_rewrite(sql, issues), llm_log |-> <<"review">>]

\* a review that loses the rule-based repairs when the service fails
ReviewKeepingInput(sql, issues, fixed) ==
  IF issues = {} THEN [sql |-> sql, llm_log |-> << >>]
  ELSE IF fixed.ok /\ fixed.sql # NoText THEN [sql |-> fixed.sql, llm_log |-> <<"review">>]
  ELSE [sql |-> sql, llm_log |-> <<"review">>]

ReviewWith(sql, issues, fixed) ==
  IF issues = {} THEN [sql |-> sql, llm_log |-> << >>]
  ELSE IF fixed.ok /\ fixed.sql # NoText THEN [sql |-> fixed.sql, llm_log |-> <<"review">>]
  ELSE [sql |-> deterministic_rewrite(sql, issues), llm_log |-> <<"review">>]

\* the result is [sql, llm_log]: the query returned and the calls made to the service
review_and_fix_sql(natural_query, sql, reply) ==
  ReviewWith(sql, static_sql_issues(sql, natural_query), llm_review_sql_openai(reply))

\* SQLAgent.evaluate_and_fix_sql
evaluate_and_fix_sql(natural_query, sql, reply) == review_and_fix_sql(natural_query, sql, reply)

(***************************************************************************)
(* SQLAgent._ensure_chain and SQLAgent.generate_sql.  The configuration is *)
(* [mode, api_key, langchain]: SQL_AGENT_MODE, OPENAI_API_KEY ("real", the *)
(* "placeholder" of the sample configuration, or "" when unset), whether   *)
(* langchain_openai can be imported.  The agent's LLM state is             *)
(* [llm_mode, chain], llm_mode "none" standing for self.llm None.          *)
(***************************************************************************)
\* (not api_key) or api_key.strip().lower() in {placeholders}
KeyMissing(cfg) == cfg.api_key \in {"", "placeholder"}

ensure_chain(cfg, st) ==
  IF st.llm_mode = "none"
  THEN IF KeyMissing(cfg) THEN st
       ELSE IF cfg.mode = "direct" THEN [llm_mode |-> "openai_direct", chain |-> st.chain]
       ELSE IF cfg.langchain THEN [llm_mode |-> "langchain", chain |-> TRUE]
       ELSE [llm_mode |-> "openai_direct", chain |-> st.chain]
  ELSE IF ~st.chain /\ st.llm_mode = "langchain" THEN [llm_mode |-> st.llm_mode, chain |-> TRUE]
  ELSE st

\* "生成SQL查询失败: {e}"
GenerateFailedPrefix == "generating the SQL query failed: "

\* the generation step of generate_sql: [ok, sql, err] and whether the service was called
GenerationStep(st, query, gen_reply) ==
  IF st.llm_mode = "none" THEN [out |-> rule_based_sql(query), llm_log |-> << >>]
  ELSE IF st.llm_mode = "langchain" /\ st.chain
  THEN [out |-> IF gen_reply.kind = "ok" THEN Returned(Strip(gen_reply.content))
                ELSE Raised(ChainErrorText(gen_reply)),
        llm_log |-> <<"generate">>]
  ELSE IF st.llm_mode = "openai_direct"
  THEN [out |-> llm_generate_sql_openai(query, gen_reply), llm_log |-> <<"generate">>]
  ELSE [out |-> rule_based_sql(query), llm_log |-> << >>]

\* the result is [ok, sql, err, st, llm_log]
Generated(st1, gen, reviewed) ==
  [ok |-> TRUE, sql |-> reviewed.sql, err |-> NoText,
   st |-> st1, llm_log |-> gen.llm_log \o reviewed.llm_log]

GenerateFrom(st1, gen, query, review_reply) ==
  IF ~gen.out.ok
  THEN [ok |-> FALSE, sql |-> NoText, err |-> <<GenerateFailedPrefix>> \o gen.out.err,
        st |-> st1, llm_log |-> gen.llm_log]
  ELSE Generated(st1, gen,
                 review_and_fix_sql(query, Strip(StripFences(gen.out.sql)), review_reply))

GenerateWith(st1, query, gen_reply, review_reply) ==
  GenerateFrom(st1, GenerationStep(st1, query, gen_reply), query, review_reply)

generate_sql(cfg, st, query, gen_reply, review_reply) ==
  GenerateWith(ensure_chain(cfg, st), query, gen_reply, review_reply)

(***************************************************************************)
(* The catalogues the inputs are drawn from                                *)
(***************************************************************************)
\* no defect
CleanListSql ==
  <<"SELECT", " ", "parent_code", " ", "FROM", " ", "parents", " ", "ORDER", " ", "BY",
    " ", "created_at", " ", "DESC", " ", "LIMIT", " ", "50">>

\* joins on parents.parent_id and filters the verified contacts
WrongJoinSql ==
  <<"SELECT", " ", "p", ".", "parent_code", " ", "FROM", " ", "parents", " ", "p", " ",
    "JOIN", " ", "parent_contacts", " ", "pc", " ", "ON", " ", "p", ".", "parent_id",
    " ", "=", " ", "pc", ".", "parent_id", " ", "WHERE", " ", "pc", ".", "is_verified",
    " ", "=", " ", "1", " ", "AND", " ", "pc", ".", "is_primary", " ", "=", " ", "1">>

\* LIMIT inside an IN subquery on the alias of parents
InLimitSql ==
  <<"SELECT", " ", "*", " ", "FROM", " ", "parents", " ", "p", " ", "WHERE", " ", "p",
    ".", "id", " ", "IN", " ", "(", "SELECT", " ", "parent_id", " ", "FROM", " ",
    "parent_contacts", " ", "ORDER", " ", "BY", " ", "id", " ", "LIMIT", " ", "5", ")">>

\* LIMIT inside an IN subquery, parents has no alias
InLimitNoAliasSql ==
  <<"SELECT", " ", "*", " ", "FROM", " ", "parents", " ", "WHERE", " ", "id", " ",
    "IN", " ", "(", "SELECT", " ", "parent_id", " ", "FROM", " ", "parent_contacts",
    " ", "LIMIT", " ", "5", ")">>

\* LIMIT written before ORDER BY
LimitFirstSql ==
  <<"SELECT", " ", "*", " ", "FROM", " ", "parents", " ", "LIMIT", " ", "10", " ",
    "ORDER", " ", "BY", " ", "created_at", " ", "DESC">>

\* DISTINCT ordered by a column that is not selected
DistinctSql ==
  <<"SELECT", " ", "DISTINCT", " ", "p", ".", "parent_code", " ", "FROM", " ",
    "parents", " ", "p", " ", "ORDER", " ", "BY", " ", "p", ".", "created_at", " ",
    "DESC", " ", "LIMIT", " ", "10", ";">>

\* the same for a column whose name starts with a digit
DistinctDigitSql ==
  <<"SELECT", " ", "DISTINCT", " ", "1", "drop", " ", "FROM", " ", "t", " ", "ORDER",
    " ", "BY", " ", "created_at", " ", "DESC">>

\* both an IN subquery with LIMIT and the DISTINCT defect
DistinctInLimitSql ==
  <<"SELECT", " ", "DISTINCT", " ", "p", ".", "parent_code", " ", "FROM", " ",
    "parents", " ", "p", " ", "WHERE", " ", "p", ".", "id", " ", "IN", " ", "(",
    "SELECT", " ", "parent_id", " ", "FROM", " ", "parent_contacts", " ", "ORDER", " ",
    "BY", " ", "id", " ", "LIMIT", " ", "5", ")", " ", "ORDER", " ", "BY", " ", "p",
    ".", "created_at", " ", "DESC">>

\* filters is_verified without a table alias
VerifiedBareSql ==
  <<"SELECT", " ", "contact_value", " ", "FROM", " ", "parent_contacts", " ", "WHERE",
    " ", "is_verified", " ", "=", " ", "1">>

\* an aggregate beside a plain column, no GROUP BY
AggregateSql ==
  <<"SELECT", " ", "parent_code", ",", " ", "COUNT", "(", "*", ")", " ", "FROM", " ",
    "parents">>

\* not a SELECT
DropSql ==
  <<"DROP", " ", "TABLE", " ", "parents">>

\* a SELECT followed by a DROP
SelectThenDropSql ==
  <<"SELECT", " ", "1", ";", " ", "DROP", " ", "TABLE", " ", "parents">>

\* lower case, surrounded by whitespace
PaddedSql ==
  <<" ", " ", "select", " ", "1", "\n">>

EmptySql == << >>

Queries ==
  {CleanListSql, WrongJoinSql, InLimitSql, InLimitNoAliasSql,
   LimitFirstSql, DistinctSql, DistinctDigitSql, DistinctInLimitSql,
   VerifiedBareSql, AggregateSql, DropSql, SelectThenDropSql,
   PaddedSql, EmptySql}

\* the queries given to the clause search and to the limit/order reorder
LimitFirstSemiSql == LimitFirstSql \o <<";">>

LimitFirstLowerSql ==
  <<"select", " ", "*", " ", "from", " ", "parents", " ", "limit", " ", "10", "\n",
    "order", " ", "by", " ", "created_at", " ", "desc", ";">>

\* LIMIT only inside a derived table, ORDER BY outside
SubqueryLimitSql ==
  <<"SELECT", " ", "*", " ", "FROM", " ", "(", "SELECT", " ", "id", " ", "FROM", " ",
    "parents", " ", "LIMIT", " ", "5", ")", " ", "t", " ", "ORDER", " ", "BY", " ", "id">>

\* ORDER BY only inside a derived table, LIMIT outside
SubqueryOrderSql ==
  <<"SELECT", " ", "*", " ", "FROM", " ", "(", "SELECT", " ", "id", " ", "FROM", " ",
    "parents", " ", "ORDER", " ", "BY", " ", "id", ")", " ", "t", " ", "LIMIT", " ", "5">>

\* LIMIT inside a derived table and at the top level
BothLimitsSql ==
  <<"SELECT", " ", "*", " ", "FROM", " ", "(", "SELECT", " ", "id", " ", "FROM", " ",
    "parents", " ", "LIMIT", " ", "5", ")", " ", "t", " ", "LIMIT", " ", "3">>

\* the top-level LIMIT first, and the ORDER BY ranks by a window
WindowOrderSql ==
  <<"SELECT", " ", "parent_code", " ", "FROM", " ", "parents", " ", "LIMIT", " ", "10",
    " ", "ORDER", " ", "BY", " ", "RANK", "(", ")", " ", "OVER", " ", "(", "ORDER", " ",
    "BY", " ", "created_at", ")">>

NoClauseSql == <<"SELECT", " ", "COUNT", "(", "*", ")", " ", "FROM", " ", "parents">>

ClauseQueries ==
  {CleanListSql, DistinctSql, InLimitSql, LimitFirstSql, LimitFirstSemiSql,
   LimitFirstLowerSql, SubqueryLimitSql, SubqueryOrderSql, BothLimitsSql, WindowOrderSql,
   NoClauseSql, EmptySql}

Clauses == {"ORDER BY", "LIMIT"}

\* the queries given to the rule-based rewrites and to the detector one by one
\* the IN subquery with LIMIT filters by a function call
InLimitCallSql ==
  <<"SELECT", " ", "*", " ", "FROM", " ", "parents", " ", "p", " ", "WHERE", " ", "p",
    ".", "id", " ", "IN", " ", "(", "SELECT", " ", "parent_id", " ", "FROM", " ",
    "parent_contacts", " ", "WHERE", " ", "DATE", "(", "created_at", ")", " ", "=", " ",
    "CURDATE", "(", ")", " ", "ORDER", " ", "BY", " ", "id", " ", "LIMIT", " ", "5", ")">>

\* the IN subquery with LIMIT is on another column than the id
InLimitCodeSql ==
  <<"SELECT", " ", "*", " ", "FROM", " ", "parents", " ", "p", " ", "WHERE", " ", "p",
    ".", "parent_code", " ", "IN", " ", "(", "SELECT", " ", "parent_code", " ", "FROM",
    " ", "parent_contacts", " ", "LIMIT", " ", "5", ")">>

\* the IN subquery with LIMIT, a terminator at the end
InLimitSemiSql == InLimitSql \o <<";">>

\* joins parent_contacts on the id of parents
RightJoinSql ==
  <<"SELECT", " ", "p", ".", "parent_code", " ", "FROM", " ", "parents", " ", "p", " ",
    "JOIN", " ", "parent_contacts", " ", "pc", " ", "ON", " ", "p", ".", "id", " ", "=",
    " ", "pc", ".", "parent_id">>

\* a left join on parents.parent_id written without blanks, a filter after it
WrongJoinLeftSql ==
  <<"SELECT", " ", "p", ".", "parent_code", " ", "FROM", " ", "parents", " ", "p", "\n",
    "LEFT", " ", "JOIN", " ", "parent_contacts", " ", "pc", " ", "ON", " ", "p", ".",
    "parent_id", "=", "pc", ".", "parent_id", " ", "WHERE", " ", "pc", ".",
    "is_primary", " ", "=", " ", "1">>

\* DISTINCT ordered by a column that is not selected, LIMIT with OFFSET
DistinctOffsetSql ==
  <<"SELECT", " ", "DISTINCT", " ", "p", ".", "parent_code", " ", "FROM", " ",
    "parents", " ", "p", " ", "ORDER", " ", "BY", " ", "p", ".", "created_at", " ",
    "DESC", " ", "LIMIT", " ", "10", " ", "OFFSET", " ", "20">>

\* two DISTINCT columns, a filter, two ordering expressions, the second without
\* direction
DistinctTwoSql ==
  <<"SELECT", " ", "DISTINCT", " ", "p", ".", "parent_code", ",", " ", "p", ".",
    "status", " ", "FROM", " ", "parents", " ", "p", " ", "WHERE", " ", "p", ".",
    "is_active", " ", "=", " ", "1", " ", "ORDER", " ", "BY", " ", "p", ".",
    "created_at", " ", "DESC", ",", " ", "p", ".", "updated_at", " ", "LIMIT", " ",
    "10", ";">>

\* DISTINCT ordered by a call with two arguments
DistinctCallSql ==
  <<"SELECT", " ", "DISTINCT", " ", "p", ".", "parent_code", " ", "FROM", " ",
    "parents", " ", "p", " ", "ORDER", " ", "BY", " ", "COALESCE", "(", "p", ".",
    "updated_at", ",", " ", "p", ".", "created_at", ")", " ", "DESC">>

\* a projection made of two aggregate calls
AggregatesOnlySql ==
  <<"SELECT", " ", "COUNT", "(", "*", ")", ",", " ", "SUM", "(", "amount", ")", " ",
    "FROM", " ", "deals">>

\* one aggregate call alone
AggregateAloneSql ==
  <<"SELECT", " ", "COUNT", "(", "*", ")", " ", "FROM", " ", "deals">>

\* two plain columns, an aggregate only in a subquery of the filter
AggregateOutsideSql ==
  <<"SELECT", " ", "parent_code", ",", " ", "status", " ", "FROM", " ", "parents", " ",
    "WHERE", " ", "created_at", " ", "=", " ", "(", "SELECT", " ", "MAX", "(",
    "created_at", ")", " ", "FROM", " ", "parents", ")">>

\* an aggregate beside the column the query groups by
AggregateGroupedSql ==
  <<"SELECT", " ", "status", ",", " ", "COUNT", "(", "*", ")", " ", "FROM", " ",
    "parents", " ", "GROUP", " ", "BY", " ", "status">>

\* the is_verified filter first, another predicate after it
VerifiedFirstSql ==
  <<"SELECT", " ", "*", " ", "FROM", " ", "parent_contacts", " ", "pc", " ", "WHERE",
    " ", "pc", ".", "is_verified", " ", "=", " ", "1", " ", "AND", " ", "pc", ".",
    "is_primary", " ", "=", " ", "1">>

\* the is_verified filter alone
VerifiedAloneSql ==
  <<"SELECT", " ", "*", " ", "FROM", " ", "parent_contacts", " ", "pc", " ", "WHERE",
    " ", "pc", ".", "is_verified", " ", "=", " ", "1">>

\* the is_verified filter chained with AND after another predicate
VerifiedChainedSql ==
  <<"SELECT", " ", "*", " ", "FROM", " ", "parent_contacts", " ", "pc", " ", "WHERE",
    " ", "pc", ".", "is_primary", " ", "=", " ", "1", " ", "AND", " ", "pc", ".",
    "is_verified", " ", "=", " ", "1">>

\* the is_verified filter without a table alias, chained with AND
VerifiedBareChainedSql ==
  <<"SELECT", " ", "contact_value", " ", "FROM", " ", "parent_contacts", " ", "WHERE",
    " ", "is_primary", " ", "=", " ", "1", " ", "AND", " ", "is_verified", " ", "=",
    " ", "1">>

\* a query inside a sql code fence
FencedWrongJoinReply ==
  <<"[fence]", "sql", "\n", "SELECT", " ", "p", ".", "parent_code", " ", "FROM", " ",
    "parents", " ", "p", " ", "JOIN", " ", "parent_contacts", " ", "pc", " ", "ON",
    " ", "p", ".", "parent_id", " ", "=", " ", "pc", ".", "parent_id", " ", "WHERE",
    " ", "pc", ".", "is_verified", " ", "=", " ", "1", " ", "AND", " ", "pc", ".",
    "is_primary", " ", "=", " ", "1", "\n", "[fence]">>

\* a code fence with nothing inside
FenceOnlyReply ==
  <<"[fence]", "sql", "\n", "[fence]">>

\* whitespace only
BlankReply ==
  <<" ", "\n">>
\* questions: 今天新增家长, 本周名单, 联系方式 (no rule template), 已验证联系方式
TodayCountQuestion == <<"jintian", "xinzeng", "jiazhang">>

WeekListQuestion == <<"benzhou", "mingdan">>

ContactQuestion == <<"lianxifangshi">>

VerifiedContactQuestion == <<"yiyanzheng", "lianxifangshi">>

Questions == {TodayCountQuestion, WeekListQuestion, ContactQuestion, VerifiedContactQuestion}

\* replies of the completion service
Timeout == [kind |-> "timeout", content |-> NoText]

HttpError == [kind |-> "http_error", content |-> NoText]

Content(c) == [kind |-> "ok", content |-> c]

NoReply == [kind |-> "unused", content |-> NoText]

FailedReplies == {Timeout, HttpError, Content(NoText)}

ReviewReplies ==
  FailedReplies \cup {Content(c) : c \in {CleanListSql, FencedWrongJoinReply, FenceOnlyReply,
                                           BlankReply}}

GenReplies ==
  ReviewReplies \cup {Content(c) : c \in {DistinctSql, VerifiedBareSql, DropSql}}

\* answers of the database: the rows of a result, or the text of the error raised
MaxRows == 1

Rows(n) == [ok |-> TRUE, rows |-> n, err |-> NoText]

Fails(e) == [ok |-> FALSE, rows |-> 0, err |-> e]

ConnectionErrorText == <<"(2013) Lost connection to MySQL server during query">>

LimitInErrorText ==
  <<"(1235) This version of MySQL doesn't yet support '", LimitInSignature, "'">>

DistinctErrorText ==
  <<"(3065) Expression #1 of ORDER BY clause is ", NotInSelectListSignature,
    "; this is ", IncompatibleDistinctSignature>>

NotInListErrorText == <<"(3065) Expression #1 of ORDER BY clause is ", NotInSelectListSignature>>

BothErrorText == LimitInErrorText \o DistinctErrorText

RetryErrorText == <<"(1064) You have an error in your SQL syntax">>

FirstErrors ==
  {ConnectionErrorText, LimitInErrorText, DistinctErrorText, NotInListErrorText, BothErrorText}

FirstOutcomes == {Rows(n) : n \in 0..MaxRows} \cup {Fails(e) : e \in FirstErrors}

RetryOutcomes == {Rows(1), Fails(RetryErrorText)}

Scripts == {<<a, b, c>> : a \in FirstOutcomes, b \in RetryOutcomes, c \in RetryOutcomes}

\* the configurations: [mode, api_key, langchain]
Configs ==
  {[mode |-> "direct", api_key |-> "real", langchain |-> TRUE],
   [mode |-> "auto", api_key |-> "real", langchain |-> TRUE],
   [mode |-> "auto", api_key |-> "real", langchain |-> FALSE],
   [mode |-> "auto", api_key |-> "placeholder", langchain |-> TRUE],
   [mode |-> "auto", api_key |-> "", langchain |-> TRUE]}

(***************************************************************************)
(* SQLAgent.summarize_result (what the query path of the message handler   *)
(* needs of it): the final-answer section of the reply of the completion   *)
(* service, else the rule-based summary.  A reply of the service is the    *)
(* sequence of its parts, the two section labels being parts.              *)
(***************************************************************************)
\* "思维链:" and "最终回复:"
ThoughtsLabel == "thoughts: "

FinalLabel == "final reply: "

\* "📊 没有查询到相关记录。"
NoRecordsText == <<"no matching record was found">>

\* format_query_response(result) for a result with rows
RuleSummaryText == <<"query result: ", "the rows">>

\* _llm_summarize_result_openai: the summary (group 1 of the final-reply pattern,
\* else the whole text)
llm_summarize_result_openai(reply) ==
  LET k == First({i \in 1..Len(reply.content) : reply.content[i] = FinalLabel})
  IN  IF reply.kind = "timeout" THEN Raised(TransportErrorText)
      ELSE IF reply.kind = "http_error" THEN Raised(HttpErrorText)
      ELSE IF reply.content = NoText THEN Raised(NoContentError)
      ELSE Returned(IF k = 0 THEN reply.content ELSE From(reply.content, k + 1))

\* a summarizer without the fallback: a failed call leaves no summary
SummaryWithoutFallback(cfg, out, rule_based) ==
  IF cfg.api_key # "" THEN [text |-> out.sql, llm_log |-> <<"summarize">>]
  ELSE [text |-> rule_based, llm_log |-> << >>]

SummaryFrom(cfg, out, rule_based) ==
  IF cfg.api_key # "" /\ out.ok
  THEN [text |-> out.sql, llm_log |-> <<"summarize">>]
  ELSE [text |-> rule_based,
        llm_log |-> IF cfg.api_key # "" THEN <<"summarize">> ELSE << >>]

\* a fallback that renders every result as a table, the empty one too
SummaryWithoutEmptyCase(cfg, result, reply) ==
  SummaryFrom(cfg, llm_summarize_result_openai(reply), RuleSummaryText)

\* summarize_result for a successful result; [text, llm_log]
summarize_result(cfg, result, reply) ==
  SummaryFrom(cfg, llm_summarize_result_openai(reply),
              IF result.total = 0 THEN NoRecordsText ELSE RuleSummaryText)

\* "❌ 查询失败：{error}"
SummaryOfFailurePrefix == "the query failed: "

\* summarize_result(natural_query, sql, result, history): the question, the query and
\* the history only reach the prompt sent to the completion service
summarize_result_of(cfg, natural_query, sql, result, history, reply) ==
  IF ~result.success
  THEN [text |-> <<SummaryOfFailurePrefix>> \o result.error, llm_log |-> << >>]
  ELSE summarize_result(cfg, result, reply)

(***************************************************************************)
(* SQLAgent.query                                                          *)
(***************************************************************************)
\* "查询处理失败: {e}"
QueryFailedPrefix == "handling the query failed: "

\* the result is [payload, st, db_log, llm_log, exec_args]; exec_args are the queries
\* execute_sql was called with
QueryExecuted(natural_query, g, e) ==
  [payload |-> IF e.ret.success
               THEN [e.ret EXCEPT !.natural_query = natural_query, !.generated_sql = g.sql]
               ELSE e.ret,
   st |-> g.st, db_log |-> e.db_log, llm_log |-> g.llm_log, exec_args |-> <<g.sql>>]

QueryFrom(natural_query, g, script) ==
  IF ~g.ok
  THEN [payload |-> format_error_response(<<QueryFailedPrefix>> \o g.err),
        st |-> g.st, db_log |-> << >>, llm_log |-> g.llm_log, exec_args |-> << >>]
  ELSE QueryExecuted(natural_query, g, execute_sql(g.sql, script))

query(cfg, st, natural_query, gen_reply, review_reply, script) ==
  QueryFrom(natural_query, generate_sql(cfg, st, natural_query, gen_reply, review_reply),
            script)

(***************************************************************************)
(* MessageTemplateParser.parse_message, as far as it decides the route of  *)
(* a message.  A message is the sequence of its phrases: "@jiqiren" is     *)
(* @机器人, "[fankui]" and "[xinjiazhang]" the template tags 【反馈】 and 【新家长】, "mobanbangzhu" 模板帮助. *)
(***************************************************************************)
RobotMentions == {"@jiqiren"}

TemplateTags == {"[fankui]", "[xinjiazhang]"}

QueryKeywords ==
  {"chaxun", "tongji", "shuju", "baobiao", "zongshu", "shuliang", "jintian", "zuotian",
   "zhezhou", "benzhou", "guoquyizhou", "jinyizhou", "zuijinyizhou", "muqianzheyizhou",
   "yizhou", "benyue", "shangyue", "genjin", "duoshao", "jige", "jitiao", "shishenme",
   "nexie", "mingcheng", "mingzi", "mingdan", "liebiao", "mingxi", "xiangqing"}

HasRobotMention(message) == \E i \in 1..Len(message) : message[i] \in RobotMentions

HasTemplateTag(message) == \E i \in 1..Len(message) : message[i] \in TemplateTags

\* MessageTemplateParser._is_query_message
is_query_message(message) ==
  \/ HasRobotMention(message)
  \/ /\ ~HasTemplateTag(message)
     /\ \E kw \in QueryKeywords : HasPhrase(message, kw) \/ HasPhrase(LowerQuestion(message), kw)

\* the message_type parse_message gives; the text of a query is the whole message
message_type(message) ==
  IF HasRobotMention(message) THEN "query"
  ELSE IF PartOf("mobanbangzhu", message) THEN "help"
  ELSE IF HasTemplateTag(message) THEN "business"
  ELSE IF is_query_message(message) THEN "query"
  ELSE "unknown"

(***************************************************************************)
(* LangGraphAgent: the query path of process_message                       *)
(***************************************************************************)
\* MessageTemplateParser.get_template_help()
TemplateHelpText == <<"the overview of the message templates">>

\* "❌ 查询执行遇到问题，已自动处理或记录。请稍后重试。"
FriendlyQueryReply == <<"the query met a problem, it was handled or recorded; retry later">>

\* "✅ 消息已处理"
DefaultReply == <<"the message was handled">>

\* fixed_sql or sql
FinalSql(fixed_sql, sql) == IF fixed_sql # NoText THEN fixed_sql ELSE sql

NodeSummarized(g, fixed, final_sql, e, summary) ==
  [error |-> NoText, response |-> summary.text, st |-> g.st, db_log |-> e.db_log,
   llm_log |-> g.llm_log \o fixed.llm_log \o summary.llm_log, exec_args |-> <<final_sql>>]

NodeExecuted(cfg, g, fixed, final_sql, e, sum_reply) ==
  IF e.ret.success
  THEN NodeSummarized(g, fixed, final_sql, e, summarize_result(cfg, e.ret, sum_reply))
  ELSE [error |-> e.ret.error, response |-> NoText, st |-> g.st, db_log |-> e.db_log,
        llm_log |-> g.llm_log \o fixed.llm_log, exec_args |-> <<final_sql>>]

NodeReviewed(cfg, g, fixed, final_sql, script, sum_reply) ==
  NodeExecuted(cfg, g, fixed, final_sql, execute_sql(final_sql, script), sum_reply)

NodeGenerated(cfg, g, query_text, review2_reply, script, sum_reply, fixed) ==
  IF ~g.ok
  THEN [error |-> <<QueryFailedPrefix>> \o g.err, response |-> NoText, st |-> g.st,
        db_log |-> << >>, llm_log |-> g.llm_log, exec_args |-> << >>]
  ELSE NodeReviewed(cfg, g, fixed, FinalSql(fixed.sql, g.sql), script, sum_reply)

\* LangGraphAgent._handle_query_message_node: [error, response, st, db_log, llm_log, exec_args]
NodeFrom(cfg, g, query_text, review2_reply, script, sum_reply) ==
  NodeGenerated(cfg, g, query_text, review2_reply, script, sum_reply,
                evaluate_and_fix_sql(query_text, g.sql, review2_reply))

handle_query_message_node(cfg, st, query_text, gen_reply, review_reply, review2_reply, script, sum_reply) ==
  NodeFrom(cfg, generate_sql(cfg, st, query_text, gen_reply, review_reply), query_text,
           review2_reply, script, sum_reply)

\* LangGraphAgent._generate_response_node: the reply for a state of the workflow
generate_response(raw_input, type, error, response) ==
  IF error # NoText
  THEN IF HasTemplateTag(raw_input)
       THEN <<"the template message was stored but has a problem", "\n">> \o error
              \o <<"\n", "\n">> \o TemplateHelpText
       ELSE IF PartOf("geshibuzhengque", error) \/ PartOf("mobangeshi", error)
       THEN <<"error: ">> \o error \o <<"\n", "\n">> \o TemplateHelpText
       ELSE IF type = "query" THEN FriendlyQueryReply
       ELSE <<"error: ">> \o error
  ELSE IF response = NoText THEN DefaultReply
  ELSE response

\* LangGraphAgent._append_memory, the number of turns kept for the sender
MemoryMaxTurns == 2

append_memory(turns) == IF turns + 1 > MemoryMaxTurns THEN MemoryMaxTurns ELSE turns + 1

(***************************************************************************)
(* The conversation memory in detail.  LangGraphAgent._memory is a dict    *)
(* from sender to a list object; a list object is an index into `lists`,   *)
(* so that two names of one list and two lists of equal content differ.    *)
(* A turn is the number of the append call that brought it.                *)
(***************************************************************************)
\* the calls of _append_memory a run makes at most
MaxAppends == 3

MemorySenders == {"", "parent_a", "parent_b"}

NoList == 0

\* turns[-n:] of Python: the last n items, and the whole list when n is 0
SliceLast(turns, n) ==
  IF n = 0 \/ n >= Len(turns) THEN turns
  ELSE SubSeq(turns, Len(turns) - n + 1, Len(turns))

\* self._memory.get(sender, []): the list kept for the sender or a new empty one
memory_get(store, heap, sender) ==
  IF store[sender] # NoList THEN [ref |-> store[sender], heap |-> heap]
  ELSE [ref |-> Len(heap) + 1, heap |-> Append(heap, << >>)]

\* turns.append({...}): the list object itself grows
turns_append(heap, ref, turn) == [heap EXCEPT ![ref] = Append(@, turn)]

\* if len(turns) > N: turns = turns[-N:]  -- the slice is a new list object
turns_truncate(heap, ref, n) ==
  IF Len(heap[ref]) > n
  THEN [ref |-> Len(heap) + 1, heap |-> Append(heap, SliceLast(heap[ref], n))]
  ELSE [ref |-> ref, heap |-> heap]

\* self._memory[sender] = turns
memory_set(store, sender, ref) == [store EXCEPT ![sender] = ref]

AfterTruncate(store, sender, t) ==
  [store |-> memory_set(store, sender, t.ref), heap |-> t.heap]

AfterAppend(store, sender, n, heap, ref) ==
  AfterTruncate(store, sender, turns_truncate(heap, ref, n))

AfterGet(store, sender, n, turn, g) ==
  AfterAppend(store, sender, n, turns_append(g.heap, g.ref, turn), g.ref)

\* LangGraphAgent._append_memory run from its first line to its last
append_memory_of(store, heap, n, sender, turn) ==
  IF sender = "" THEN [store |-> store, heap |-> heap]
  ELSE AfterGet(store, sender, n, turn, memory_get(store, heap, sender))

\* the turns a sender's memory holds
TurnsOf(store, heap, sender) ==
  IF store[sender] = NoList THEN << >> ELSE heap[store[sender]]

(***************************************************************************)
(* The schema context.  get_mschema_string asks the SchemaEngine of the    *)
(* M-Schema package first and the SQLAlchemy inspector second; each of the *)
(* two is "ok", "unavailable" (the package cannot be imported: it raises   *)
(* before the database is asked) or "fails" (the database is asked and     *)
(* the attempt raises).                                                    *)
(***************************************************************************)
BuildOutcomes == {"ok", "unavailable", "fails"}

\* SQLAgent.schema_info, the hand-maintained description of the tables
SchemaInfoText == <<"the simplified description of the tables">>

EngineSchemaText == <<"the M-Schema of the SchemaEngine">>

InspectorSchemaText == <<"the M-Schema of the inspector">>

\* "【M-Schema加载失败】{e2}"
LoadFailedPrefix == "loading the M-Schema failed: "

\* "本地回退不可用：缺少 M-Schema 源文件。"
FallbackUnavailableText == <<"no local fallback: the M-Schema sources are missing">>

InspectorErrorText(inspector) ==
  IF inspector = "unavailable" THEN FallbackUnavailableText
  ELSE <<"(pymysql.err.OperationalError) (2003, \"Can't connect to MySQL server\")">>

\* the times an attempt of a build asks the database for its schema
IntrospectionsOf(outcome) == IF outcome = "unavailable" THEN 0 ELSE 1

\* mschema_helper.get_mschema_string: [text, cached, queries]
get_mschema_string(cached, engine, inspector) ==
  IF cached # NoText THEN [text |-> cached, cached |-> cached, queries |-> 0]
  ELSE IF engine = "ok"
  THEN [text |-> EngineSchemaText, cached |-> EngineSchemaText, queries |-> 1]
  ELSE IF inspector = "ok"
  THEN [text |-> InspectorSchemaText, cached |-> InspectorSchemaText,
        queries |-> IntrospectionsOf(engine) + 1]
  ELSE [text |-> <<LoadFailedPrefix>> \o InspectorErrorText(inspector), cached |-> NoText,
        queries |-> IntrospectionsOf(engine) + IntrospectionsOf(inspector)]

get_db_schema(cached, engine, inspector) == get_mschema_string(cached, engine, inspector)

SchemaRead(r) == [text |-> r.text, agent |-> r.text, cached |-> r.cached, queries |-> r.queries]

\* SQLAgent._get_mschema_str: [text, agent, cached, queries]
get_mschema_str(agent, cached, engine, inspector) ==
  IF agent # NoText THEN [text |-> agent, agent |-> agent, cached |-> cached, queries |-> 0]
  ELSE SchemaRead(get_db_schema(cached, engine, inspector))

\* a call that reads the schema context only when it asks the completion service
SchemaReadIf(reads, agent, cached, engine, inspector) ==
  IF reads THEN get_mschema_str(agent, cached, engine, inspector)
  ELSE [text |-> NoText, agent |-> agent, cached |-> cached, queries |-> 0]

MessageReply(message, n) ==
  [reply |-> generate_response(message, message_type(message), n.error, n.response),
   error |-> n.error, st |-> n.st, db_log |-> n.db_log, llm_log |-> n.llm_log,
   exec_args |-> n.exec_args]

\* LangGraphAgent.process_message for a message routed to the query node
process_message(cfg, st, message, gen_reply, review_reply, review2_reply, script, sum_reply) ==
  MessageReply(message,
               handle_query_message_node(cfg, st, message, gen_reply, review_reply,
                                         review2_reply, script, sum_reply))

(***************************************************************************)
(* BusinessService: the lead lifecycle.  The statuses stand for 待接手      *)
(* (pending_takeover), 合伙人跟进中 (partner_following), 销售跟进中         *)
(* (sales_following), 已成交 (deal_closed) and 已流失 (lost); the roles for *)
(* 社媒 (social_media), 合伙人 (partner) and 销售 (sales); the message      *)
(* types for 新家长, 补全微信号, 合伙人接手, 放弃, 转销售, 销售接手, 反馈,  *)
(* 成交 and 流失.  A nickname is <<prefix, name>>.                          *)
(***************************************************************************)
Statuses ==
  {"pending_takeover", "partner_following", "sales_following", "deal_closed", "lost"}

MessageTypes ==
  {"new_parent", "complete_wechat", "partner_take_over", "abandon", "transfer_to_sales",
   "sales_take_over", "feedback", "deal_closed", "lost"}

\* the nicknames of the group: one of social media, two partners, two
\* salespeople of whom ZZ_c has no role prefix and is registered by hand,
\* and ZZ_d, who is unknown
Nicknames ==
  {<<"SM", "a">>, <<"HP", "a">>, <<"HP", "b">>, <<"xs", "a">>, <<"ZZ", "c">>, <<"ZZ", "d">>}

NoName == << >>

\* the parent code the generator gives, and one that no lead has
ParentCodes == {"JZ0001"}
UnknownCode == "JZ9999"

\* contact values of new leads, WeChat ids of complete-wechat
ContactValues == {"138", "139"}
WechatIds == {"wx1", "wx2"}

NoValue == ""
NoParent ==
  [current_status |-> "none", partner_id |-> NoName, salesperson_id |-> NoName,
   sales_team |-> NoValue, intent_level |-> NoValue, followup_stage |-> NoValue,
   contact |-> NoValue, wechat_id |-> NoValue]

NoStaff == [role |-> "none", sales_team |-> NoValue, is_active |-> 0]

\* MessageValidator.validate_enum_value for the values of the messages: "x" is
\* outside every enumeration
VALID_SALES_TEAMS == {"guangzhou", "shenzhen"}
VALID_INTENT_LEVELS == {"low", "mid", "high"}
VALID_FOLLOWUP_STAGES == {"first_call"}
VALID_FEEDBACK_TYPES == {"same_day"}
VALID_SERVICE_CATEGORIES == {"DSE"}

validate_enum_value(value, valid_values) == value \in valid_values

\* BusinessService._derive_role_from_staff_id: the first two letters, upper case
PrefixLetters(staff_id) ==
  IF staff_id = NoName THEN ""
  ELSE CASE staff_id[1] \in {"SM", "sm"} -> "SM"
         [] staff_id[1] \in {"HP", "hp"} -> "HP"
         [] staff_id[1] \in {"XS", "xs"} -> "XS"
         [] OTHER -> staff_id[1]

derive_role_from_staff_id(staff_id) ==
  CASE PrefixLetters(staff_id) = "SM" -> "social_media"
    [] PrefixLetters(staff_id) = "HP" -> "partner"
    [] PrefixLetters(staff_id) = "XS" -> "sales"
    [] OTHER -> "none"

\* a validator that lets every role send every message
AnyRolePermitted(role, action) == TRUE

\* BusinessValidator.validate_role_permission
role_permissions(role) ==
  CASE role = "social_media" -> {"new_parent"}
    [] role = "partner" -> {"complete_wechat", "partner_take_over", "abandon",
                            "transfer_to_sales"}
    [] role = "sales" -> {"sales_take_over", "feedback", "deal_closed", "lost"}
    [] OTHER -> {}

validate_role_permission(role, action) == action \in role_permissions(role)

\* BusinessService._ensure_staff_mapping(sender, action): [ok, role, staff], the
\* table after the commits of its own session
AlignedRole(row, derived_role) == IF derived_role # "none" THEN derived_role ELSE row.role

EnsureWith(staff, sender, derived_role) ==
  IF staff[sender] # NoStaff
  THEN [ok |-> TRUE, role |-> AlignedRole(staff[sender], derived_role),
        staff |-> [staff EXCEPT ![sender].role = AlignedRole(staff[sender], derived_role),
                                ![sender].is_active = 1]]
  ELSE IF derived_role = "none" THEN [ok |-> FALSE, role |-> "none", staff |-> staff]
  ELSE [ok |-> TRUE, role |-> derived_role,
        staff |-> [staff EXCEPT ![sender] =
                     [role |-> derived_role, sales_team |-> NoValue, is_active |-> 1]]]

ensure_staff_mapping(staff, sender) ==
  EnsureWith(staff, sender, derive_role_from_staff_id(sender))

\* db.query(Parents).filter(Parents.parent_code == parent_code).first()
FindParent(db, parent_code) ==
  IF parent_code \in ParentCodes THEN db.parents[parent_code] ELSE NoParent

\* ProcessLogs(...)
ProcessLog(m, info) ==
  [parent_code |-> m.parent_code, action_type |-> m.message_type,
   operator_id |-> info.staff_id, operator_role |-> info.role]

\* the outcome of a handler: the response, the rows of its session, whether the
\* session was committed, and the staff table as the commits made before the
\* last one left it
ErrorResponse(db, session, error) ==
  [success |-> FALSE, error |-> error, commit |-> FALSE, session |-> session,
   staff |-> db.staff_mapping]

SuccessResponse(session) ==
  [success |-> TRUE, error |-> "", commit |-> TRUE, session |-> session,
   staff |-> session.staff_mapping]

\* db.add(log); db.commit() with the lead changed to parent
Commit(db, m, info, parent) ==
  SuccessResponse([db EXCEPT !.parents[m.parent_code] = parent,
                             !.process_logs = Append(@, ProcessLog(m, info))])

\* a session that commits at close what was only added to it
CloseCommitting(db, out) == out.session

\* finally: db.close(): what the session did not commit is rolled back
Close(db, out) ==
  IF out.commit THEN out.session ELSE [db EXCEPT !.staff_mapping = out.staff]

\* the sender of a message as the handlers see it
SenderInfo(sender, role) == [staff_id |-> sender, role |-> role]

\* the lead of another code that holds the contact value, the WeChat id
ContactTaken(db, value) == \E c \in ParentCodes : db.parents[c].contact = value

WechatTakenByOther(db, m) ==
  \E c \in ParentCodes \ {m.parent_code} : db.parents[c].wechat_id = m.wechat_id

\* BusinessService._handle_new_parent: the lead as it is created for an
\* assignee whose row of the staff table is staff_row
NewParentOf(m, assignee_role, staff_row) ==
  [current_status |-> "pending_takeover",
   partner_id |-> IF assignee_role = "sales" THEN NoName ELSE m.assignee,
   salesperson_id |-> IF assignee_role = "sales" THEN m.assignee ELSE NoName,
   sales_team |-> IF assignee_role = "sales" THEN staff_row.sales_team ELSE NoValue,
   intent_level |-> m.intent_level, followup_stage |-> NoValue,
   contact |-> m.contact, wechat_id |-> NoValue]

\* db.add(parent); db.flush(): parent_code is unique
AddParent(db, m, info, staff, assignee_role) ==
  IF db.parents[m.generated_code] # NoParent
  THEN [ErrorResponse(db, db, "save_failed") EXCEPT !.staff = staff]
  ELSE SuccessResponse(
         [db EXCEPT !.staff_mapping = staff,
                    !.parents[m.generated_code] =
                       NewParentOf(m, assignee_role, staff[m.assignee]),
                    !.process_logs =
                       Append(@, [ProcessLog(m, info) EXCEPT !.parent_code = m.generated_code])])

handle_new_parent(db, m, info) ==
  IF ~validate_enum_value(m.service_category, VALID_SERVICE_CATEGORIES)
  THEN ErrorResponse(db, db, "invalid_service_category")
  ELSE IF ContactTaken(db, m.contact) THEN ErrorResponse(db, db, "contact_exists")
  ELSE IF derive_role_from_staff_id(m.assignee) = "none"
  THEN ErrorResponse(db, db, "invalid_assignee")
  ELSE AddParent(db, m, info,
                 IF db.staff_mapping[m.assignee] = NoStaff
                 THEN ensure_staff_mapping(db.staff_mapping, m.assignee).staff
                 ELSE [db.staff_mapping EXCEPT ![m.assignee].role =
                         derive_role_from_staff_id(m.assignee)],
                 derive_role_from_staff_id(m.assignee))

\* BusinessService._handle_complete_wechat
CompleteWechatOf(db, m, info, parent) ==
  IF parent = NoParent THEN ErrorResponse(db, db, "unknown_lead")
  ELSE IF parent.current_status \notin {"pending_takeover", "partner_following"}
  THEN ErrorResponse(db, db, "wrong_status")
  ELSE IF parent.partner_id = NoName THEN ErrorResponse(db, db, "not_assigned")
  ELSE IF parent.partner_id # info.staff_id THEN ErrorResponse(db, db, "not_owner")
  ELSE IF WechatTakenByOther(db, m) THEN ErrorResponse(db, db, "wechat_exists")
  ELSE Commit(db, m, info, [parent EXCEPT !.current_status = "partner_following",
                                          !.partner_id = info.staff_id,
                                          !.wechat_id = m.wechat_id])

handle_complete_wechat(db, m, info) ==
  CompleteWechatOf(db, m, info, FindParent(db, m.parent_code))

\* BusinessService._handle_take_over
TakeOverOf(db, m, info, parent) ==
  IF parent = NoParent THEN ErrorResponse(db, db, "unknown_lead")
  ELSE IF parent.current_status # "pending_takeover"
  THEN ErrorResponse(db, db, "wrong_status")
  ELSE IF parent.partner_id = NoName THEN ErrorResponse(db, db, "not_assigned")
  ELSE IF parent.partner_id # info.staff_id THEN ErrorResponse(db, db, "not_owner")
  ELSE Commit(db, m, info, [parent EXCEPT !.current_status = "partner_following",
                                          !.partner_id = info.staff_id])

handle_take_over(db, m, info) == TakeOverOf(db, m, info, FindParent(db, m.parent_code))

\* BusinessService._handle_abandon
AbandonOf(db, m, info, parent) ==
  IF parent = NoParent THEN ErrorResponse(db, db, "unknown_lead")
  ELSE IF parent.current_status # "partner_following"
  THEN ErrorResponse(db, db, "wrong_status")
  ELSE IF parent.partner_id # info.staff_id THEN ErrorResponse(db, db, "not_owner")
  ELSE Commit(db, m, info, [parent EXCEPT !.current_status = "lost"])

\* a handler that abandons a lead whatever its status
AbandonInAnyStatus(db, m, info) ==
  IF FindParent(db, m.parent_code) = NoParent THEN ErrorResponse(db, db, "unknown_lead")
  ELSE Commit(db, m, info, [FindParent(db, m.parent_code) EXCEPT !.current_status = "lost"])

handle_abandon(db, m, info) == AbandonOf(db, m, info, FindParent(db, m.parent_code))

\* BusinessService._handle_transfer_to_sales: the assignment to a salesperson
\* whose row is in the staff table staff, or who is bound by nickname
AssignSales(db, m, info, parent, staff) ==
  IF staff[m.assignee] = NoStaff
  THEN IF derive_role_from_staff_id(m.assignee) = "sales"
       THEN Commit(db, m, info, [parent EXCEPT !.salesperson_id = m.assignee,
                                               !.sales_team = NoValue,
                                               !.current_status = "sales_following"])
       ELSE ErrorResponse(db, db, "assignee_not_sales")
  ELSE IF staff[m.assignee].role # "sales"
          /\ derive_role_from_staff_id(m.assignee) # "sales"
  THEN [ErrorResponse(db, db, "assignee_not_sales") EXCEPT !.staff = staff]
  ELSE Commit([db EXCEPT !.staff_mapping = [staff EXCEPT ![m.assignee].role = "sales"]],
              m, info, [parent EXCEPT !.salesperson_id = m.assignee,
                                      !.sales_team = staff[m.assignee].sales_team,
                                      !.current_status = "sales_following"])

TransferToSalesOf(db, m, info, parent) ==
  IF parent = NoParent THEN ErrorResponse(db, db, "unknown_lead")
  ELSE IF parent.current_status # "partner_following"
  THEN ErrorResponse(db, db, "wrong_status")
  ELSE IF parent.partner_id # info.staff_id THEN ErrorResponse(db, db, "not_owner")
  ELSE IF m.assignee = NoName THEN ErrorResponse(db, db, "no_assignee")
  ELSE AssignSales(db, m, info, parent,
                   IF db.staff_mapping[m.assignee] = NoStaff
                   THEN ensure_staff_mapping(db.staff_mapping, m.assignee).staff
                   ELSE db.staff_mapping)

handle_transfer_to_sales(db, m, info) ==
  TransferToSalesOf(db, m, info, FindParent(db, m.parent_code))

\* BusinessService._handle_sales_take_over: the optional intent level, then the
\* log and the commit
TakeOverIntent(db, m, info, session) ==
  IF m.intent_level = NoValue
  THEN SuccessResponse([session EXCEPT !.process_logs = Append(@, ProcessLog(m, info))])
  ELSE IF ~validate_enum_value(m.intent_level, VALID_INTENT_LEVELS)
  THEN ErrorResponse(db, session, "invalid_intent_level")
  ELSE SuccessResponse([session EXCEPT !.parents[m.parent_code].intent_level = m.intent_level,
                                       !.process_logs = Append(@, ProcessLog(m, info))])

\* the optional team; the sender has a row in the staff table since
\* process_message ensured it
TakeOverTeam(db, m, info, session) ==
  IF m.sales_team # NoValue
  THEN IF ~validate_enum_value(m.sales_team, VALID_SALES_TEAMS)
       THEN ErrorResponse(db, session, "invalid_sales_team")
       ELSE TakeOverIntent(db, m, info,
                           [session EXCEPT !.staff_mapping[info.staff_id].sales_team = m.sales_team,
                                           !.parents[m.parent_code].sales_team = m.sales_team])
  ELSE IF session.staff_mapping[info.staff_id].sales_team # NoValue
          /\ session.parents[m.parent_code].sales_team = NoValue
  THEN TakeOverIntent(db, m, info,
                      [session EXCEPT !.parents[m.parent_code].sales_team =
                                         session.staff_mapping[info.staff_id].sales_team])
  ELSE TakeOverIntent(db, m, info, session)

SalesTakeOverOf(db, m, info, parent) ==
  IF parent = NoParent THEN ErrorResponse(db, db, "unknown_lead")
  ELSE IF parent.current_status = "pending_takeover"
  THEN IF parent.salesperson_id = NoName THEN ErrorResponse(db, db, "not_assigned")
       ELSE IF parent.salesperson_id # info.staff_id THEN ErrorResponse(db, db, "not_owner")
       ELSE TakeOverTeam(db, m, info,
                         [db EXCEPT !.parents[m.parent_code].current_status = "sales_following"])
  ELSE IF parent.current_status = "sales_following"
  THEN IF parent.salesperson_id # NoName /\ parent.salesperson_id # info.staff_id
       THEN ErrorResponse(db, db, "not_owner")
       ELSE TakeOverTeam(db, m, info,
                         [db EXCEPT !.parents[m.parent_code].salesperson_id = info.staff_id])
  ELSE ErrorResponse(db, db, "wrong_status")

handle_sales_take_over(db, m, info) ==
  SalesTakeOverOf(db, m, info, FindParent(db, m.parent_code))

\* BusinessService._handle_feedback; prepayment_amount and is_visit are absent
\* from the messages
FeedbackOf(db, m, info, parent) ==
  IF ~validate_enum_value(m.feedback_type, VALID_FEEDBACK_TYPES)
  THEN ErrorResponse(db, db, "invalid_feedback_type")
  ELSE IF parent = NoParent THEN ErrorResponse(db, db, "unknown_lead")
  ELSE IF parent.current_status # "sales_following"
  THEN ErrorResponse(db, db, "wrong_status")
  ELSE IF parent.salesperson_id # info.staff_id THEN ErrorResponse(db, db, "not_owner")
  ELSE IF m.followup_stage # NoValue
          /\ ~validate_enum_value(m.followup_stage, VALID_FOLLOWUP_STAGES)
  THEN ErrorResponse(db, db, "invalid_followup_stage")
  ELSE IF m.intent_level # NoValue
          /\ ~validate_enum_value(m.intent_level, VALID_INTENT_LEVELS)
  THEN ErrorResponse(db, db, "invalid_intent_level")
  ELSE Commit(db, m, info,
              [parent EXCEPT !.followup_stage = IF m.followup_stage # NoValue
                                                THEN m.followup_stage ELSE @,
                             !.intent_level = IF m.intent_level # NoValue
                                              THEN m.intent_level ELSE @])

handle_feedback(db, m, info) == FeedbackOf(db, m, info, FindParent(db, m.parent_code))

\* BusinessService._handle_deal_closed and _handle_lost
SalesCloseOf(db, m, info, parent, status) ==
  IF parent = NoParent THEN ErrorResponse(db, db, "unknown_lead")
  ELSE IF parent.current_status # "sales_following"
  THEN ErrorResponse(db, db, "wrong_status")
  ELSE IF parent.salesperson_id # info.staff_id THEN ErrorResponse(db, db, "not_owner")
  ELSE Commit(db, m, info, [parent EXCEPT !.current_status = status])

handle_deal_closed(db, m, info) ==
  SalesCloseOf(db, m, info, FindParent(db, m.parent_code), "deal_closed")

handle_lost(db, m, info) == SalesCloseOf(db, m, info, FindParent(db, m.parent_code), "lost")

\* handler_map of BusinessService.process_message
Handle(db, m, info) ==
  CASE m.message_type = "new_parent" -> handle_new_parent(db, m, info)
    [] m.message_type = "complete_wechat" -> handle_complete_wechat(db, m, info)
    [] m.message_type = "partner_take_over" -> handle_take_over(db, m, info)
    [] m.message_type = "abandon" -> handle_abandon(db, m, info)
    [] m.message_type = "transfer_to_sales" -> handle_transfer_to_sales(db, m, info)
    [] m.message_type = "sales_take_over" -> handle_sales_take_over(db, m, info)
    [] m.message_type = "feedback" -> handle_feedback(db, m, info)
    [] m.message_type = "deal_closed" -> handle_deal_closed(db, m, info)
    [] m.message_type = "lost" -> handle_lost(db, m, info)
    [] OTHER -> ErrorResponse(db, db, "unsupported_message_type")

\* BusinessService.process_message: the sender is ensured in the staff table,
\* the role is checked, the handler runs and its session is closed
HandleAs(db, m, sender) ==
  IF ~sender.ok THEN ErrorResponse(db, db, "unknown_sender")
  ELSE IF ~validate_role_permission(sender.role, m.message_type)
  THEN [ErrorResponse(db, db, "no_permission") EXCEPT !.staff = sender.staff]
  ELSE Handle([db EXCEPT !.staff_mapping = sender.staff], m,
              SenderInfo(m.sender, sender.role))

business_process_message(db, m) ==
  HandleAs(db, m, ensure_staff_mapping(db.staff_mapping, m.sender))

\* the process-log entries the lead lifecycle is followed for
MaxLogs == 4

\* the business messages of the group
NoMessage ==
  [message_type |-> "none", sender |-> NoName, parent_code |-> NoValue,
   assignee |-> NoName, sales_team |-> NoValue, intent_level |-> NoValue,
   followup_stage |-> NoValue, feedback_type |-> NoValue, service_category |-> NoValue,
   contact |-> NoValue, wechat_id |-> NoValue, generated_code |-> NoValue]

AboutLead(type) ==
  {[NoMessage EXCEPT !.message_type = type, !.sender = s, !.parent_code = c] :
     s \in Nicknames, c \in ParentCodes \cup {UnknownCode}}

BusinessMessages ==
  {[NoMessage EXCEPT !.message_type = "new_parent", !.sender = s, !.assignee = a,
                     !.service_category = sc, !.contact = c, !.generated_code = g] :
     s \in {<<"SM", "a">>, <<"HP", "a">>, <<"ZZ", "d">>},
     a \in {<<"HP", "a">>, <<"HP", "b">>, <<"xs", "a">>, <<"ZZ", "c">>},
     sc \in {"DSE", "x"}, c \in ContactValues, g \in ParentCodes}
  \cup {[m EXCEPT !.wechat_id = w] : m \in AboutLead("complete_wechat"), w \in WechatIds}
  \cup AboutLead("partner_take_over") \cup AboutLead("abandon")
  \cup {[m EXCEPT !.assignee = a] :
          m \in AboutLead("transfer_to_sales"),
          a \in {NoName, <<"xs", "a">>, <<"ZZ", "c">>, <<"HP", "b">>, <<"ZZ", "d">>}}
  \cup {[m EXCEPT !.sales_team = o[1], !.intent_level = o[2]] :
          m \in AboutLead("sales_take_over"),
          o \in {<<NoValue, NoValue>>, <<"guangzhou", NoValue>>, <<"x", NoValue>>,
                 <<NoValue, "high">>, <<NoValue, "x">>, <<"guangzhou", "x">>}}
  \cup {[m EXCEPT !.feedback_type = o[1], !.followup_stage = o[2], !.intent_level = o[3]] :
          m \in AboutLead("feedback"),
          o \in {<<"same_day", NoValue, NoValue>>, <<"x", NoValue, NoValue>>,
                 <<"same_day", "first_call", NoValue>>, <<"same_day", "x", NoValue>>,
                 <<"same_day", NoValue, "low">>, <<"same_day", NoValue, "x">>}}
  \cup AboutLead("deal_closed") \cup AboutLead("lost")

\* the tables at the start: no lead, no log; SM_a, HP_a and xs_a have written
\* to the group before and ZZ_c, who has no role prefix, was registered by hand
Registered(role) == [role |-> role, sales_team |-> NoValue, is_active |-> 1]

InitStaff ==
  [n \in Nicknames |->
     CASE n = <<"SM", "a">> -> Registered("social_media")
       [] n = <<"HP", "a">> -> Registered("partner")
       [] n \in {<<"xs", "a">>, <<"ZZ", "c">>} -> Registered("sales")
       [] OTHER -> NoStaff]

InitTables ==
  [parents |-> [c \in ParentCodes |-> NoParent], staff_mapping |-> InitStaff,
   process_logs |-> << >>]

NoResponse == [success |-> FALSE, error |-> "none"]

(***************************************************************************)
(* The state machine.  One agent process serves one call at a time: an     *)
(* action takes the inputs of a call and what the completion service and   *)
(* the database answer during it, runs the whole handler, and leaves the   *)
(* call and what it returned in `call` and `ret`; Return hands the result  *)
(* over and makes the process ready for the next call.                     *)
(***************************************************************************)
VARIABLES
  cfg,      \* the configuration of the process
  st,       \* SQLAgent.llm / llm_mode / chain of the shared agent
  memory,   \* LangGraphAgent._memory: the number of turns kept for the sender of
            \* process_message (the lists themselves are in memory_store)
  max_turns,     \* LangGraphAgent._memory_max_turns
  memory_store,  \* LangGraphAgent._memory: sender -> list object
  lists,         \* the list objects, by identity
  threads,       \* the requests inside _append_memory and where they stand
  appended,      \* per sender, the turns given to _append_memory, in call order
  appends,       \* the calls of _append_memory made so far
  mschema_str,          \* SQLAgent._mschema_str of the shared agent
  cached_mschema_str,   \* mschema_helper._cached_mschema_str
  introspections,       \* the times the database was asked for its schema
  pc,       \* "idle" or "done"
  call,     \* the call being served and the answers of its environment
  ret,      \* what the call returned
  parents,        \* the table parents: the lead of each parent code
  staff_mapping,  \* the table staff_mapping: the row of each nickname
  process_logs,   \* the table process_logs, in the order of the commits
  message,        \* the business message handled last
  response,       \* the response to it
  before,         \* the tables as they were when it arrived
  agent,          \* app._agent: None (NoAgent) or the instance it refers to
  agents,         \* the LangGraphAgent instances made so far: the turns in each _memory
  requests,       \* the requests on their threads: where each stands in get_agent
  started,        \* the requests received so far
  run,            \* the run of the workflow graph: its node and its AgentState
  runs            \* the runs of the graph started so far

memvars == <<max_turns, memory_store, lists, threads, appended, appends>>

leadvars == <<parents, staff_mapping, process_logs, message, response, before>>

agentvars == <<agent, agents, requests, started>>

graphvars == <<run, runs>>

schemavars == <<mschema_str, cached_mschema_str, introspections>>

vars == <<cfg, st, memory, pc, call, ret, memvars, schemavars, leadvars, agentvars, graphvars>>

NoCall ==
  [op |-> "none", question |-> NoText, sql |-> NoText, gen_reply |-> NoReply,
   review_reply |-> NoReply, review2_reply |-> NoReply, sum_reply |-> NoReply,
   script |-> << >>, result |-> format_error_response(NoText), history |-> 0,
   schema |-> [before |-> NoText, engine |-> "unused", inspector |-> "unused"],
   clause |-> ""]

NoRet ==
  [raised |-> FALSE, err |-> NoText, sql |-> NoText, payload |-> format_error_response(NoText),
   reply |-> NoText, db_log |-> << >>, llm_log |-> << >>, exec_args |-> << >>,
   index |-> 0, issues |-> {}]

Threads == {1, 2}

IdleThread == [pc |-> "idle", sender |-> "", turn |-> 0, turns |-> NoList]

\* the agent after construction, with the given AGENT_MEMORY_MAX_TURNS
\* app._agent = None
NoAgent == 0

\* the requests the web server is given
MaxRequests == 3

\* a thread of the web server that serves no request
IdleRequest == [pc |-> "idle", turn |-> 0, made |-> NoAgent, got |-> NoAgent]

\* the runs of the workflow graph
MaxRuns == 2

\* the AgentState of process_message before the graph is invoked: no node yet
NoRun ==
  [node |-> "idle", trace |-> << >>, text |-> NoText, parsed |-> NoMessage,
   type |-> "none", error |-> NoText, response |-> NoText, db_log |-> << >>,
   reply |-> NoText]

InitWith(n) ==
  /\ cfg \in Configs
  /\ st = [llm_mode |-> "none", chain |-> FALSE]
  /\ memory = 0
  /\ pc = "idle"
  /\ call = NoCall
  /\ ret = NoRet
  /\ max_turns = n
  /\ memory_store = [s \in MemorySenders |-> NoList]
  /\ lists = << >>
  /\ threads = [t \in Threads |-> IdleThread]
  /\ appended = [s \in MemorySenders |-> << >>]
  /\ appends = 0
  /\ mschema_str = NoText
  /\ cached_mschema_str = NoText
  /\ introspections = 0
  /\ parents = InitTables.parents
  /\ staff_mapping = InitTables.staff_mapping
  /\ process_logs = InitTables.process_logs
  /\ message = NoMessage
  /\ response = NoResponse
  /\ before = InitTables
  /\ agent = NoAgent
  /\ agents = << >>
  /\ requests = [t \in Threads |-> IdleRequest]
  /\ started = 0
  /\ run = NoRun
  /\ runs = 0

Init == InitWith(MemoryMaxTurns)

\* AGENT_MEMORY_MAX_TURNS is read from the environment and not validated
InitMemory == \E n \in 0..MemoryMaxTurns : InitWith(n)

\* the builds of the schema context a call of the whole pipeline meets
PipelineBuilds == {<<"ok", "ok">>, <<"fails", "fails">>}

\* the schema context after a call that read it, or did not
SchemaBecomes(r) ==
  /\ mschema_str' = r.agent
  /\ cached_mschema_str' = r.cached
  /\ introspections' = introspections + r.queries

ReadsSchema(reads) ==
  \E b \in PipelineBuilds :
    SchemaBecomes(SchemaReadIf(reads, mschema_str, cached_mschema_str, b[1], b[2]))

\* execute_sql(sql)
ExecuteSql ==
  /\ pc = "idle"
  /\ \E sql \in Queries, script \in Scripts :
       \E r \in {execute_sql(sql, script)} :
           /\ call' = [NoCall EXCEPT !.op = "execute_sql", !.sql = sql, !.script = script]
           /\ ret' = [NoRet EXCEPT !.payload = r.ret, !.db_log = r.db_log]
  /\ pc' = "done"
  /\ UNCHANGED <<graphvars, agentvars, leadvars, cfg, st, memory, memvars, schemavars>>

\* evaluate_and_fix_sql(natural_query, sql)
EvaluateAndFixSql ==
  /\ pc = "idle"
  /\ \E q \in Questions, sql \in Queries, reply \in ReviewReplies :
       \E r \in {evaluate_and_fix_sql(q, sql, reply)} :
           /\ call' = [NoCall EXCEPT !.op = "evaluate_and_fix_sql", !.question = q,
                                     !.sql = sql, !.review_reply = reply]
           /\ ret' = [NoRet EXCEPT !.sql = r.sql, !.llm_log = r.llm_log]
  /\ pc' = "done"
  /\ UNCHANGED <<graphvars, agentvars, leadvars, cfg, st, memory, memvars, schemavars>>

\* generate_sql(query)
GenerateSql ==
  /\ pc = "idle"
  /\ \E q \in Questions, g \in GenReplies, reply \in ReviewReplies :
       \E r \in {generate_sql(cfg, st, q, g, reply)} :
           /\ call' = [NoCall EXCEPT !.op = "generate_sql", !.question = q,
                                     !.gen_reply = g, !.review_reply = reply]
           /\ ret' = [NoRet EXCEPT !.raised = ~r.ok, !.err = r.err, !.sql = r.sql,
                                   !.llm_log = r.llm_log]
           /\ st' = r.st
           /\ ReadsSchema("generate" \in {r.llm_log[k] : k \in 1..Len(r.llm_log)})
  /\ pc' = "done"
  /\ UNCHANGED <<graphvars, agentvars, leadvars, cfg, memory, memvars>>

\* the environments of the calls that run the whole pipeline
PipelineGenReplies ==
  {Timeout, HttpError, Content(CleanListSql), Content(DistinctSql), Content(DropSql)}

PipelineReviewReplies == {Timeout, Content(CleanListSql)}

PipelineScripts ==
  {<<Rows(1), Rows(1), Rows(1)>>, <<Rows(0), Rows(1), Rows(1)>>,
   <<Fails(ConnectionErrorText), Rows(1), Rows(1)>>,
   <<Fails(DistinctErrorText), Rows(1), Rows(1)>>,
   <<Fails(DistinctErrorText), Fails(RetryErrorText), Fails(RetryErrorText)>>}

\* SQLAgent.query(natural_query)
Query ==
  /\ pc = "idle"
  /\ \E q \in Questions, g \in PipelineGenReplies, reply \in PipelineReviewReplies,
        script \in PipelineScripts :
       \E r \in {query(cfg, st, q, g, reply, script)} :
           /\ call' = [NoCall EXCEPT !.op = "query", !.question = q, !.gen_reply = g,
                                     !.review_reply = reply, !.script = script]
           /\ ret' = [NoRet EXCEPT !.payload = r.payload, !.db_log = r.db_log,
                                   !.llm_log = r.llm_log, !.exec_args = r.exec_args]
           /\ st' = r.st
           /\ ReadsSchema("generate" \in {r.llm_log[k] : k \in 1..Len(r.llm_log)})
  /\ pc' = "done"
  /\ UNCHANGED <<graphvars, agentvars, leadvars, cfg, memory, memvars>>

\* the messages that the parser routes to the query node
QueryMessages ==
  {<<"@jiqiren">> \o TodayCountQuestion, <<"@jiqiren", "[fankui]">> \o TodayCountQuestion,
   <<"@jiqiren">> \o ContactQuestion, WeekListQuestion}

SummaryReplies ==
  {Timeout, Content(<<ThoughtsLabel, "how the rows were read", FinalLabel, "the answer">>),
   Content(<<"an answer without the two labels">>)}

\* LangGraphAgent.process_message(message, sender) for a query message
ProcessMessage ==
  /\ pc = "idle"
  /\ \E m \in QueryMessages, g \in PipelineGenReplies, r1 \in PipelineReviewReplies,
        r2 \in PipelineReviewReplies, script \in PipelineScripts, s \in SummaryReplies :
       \E r \in {process_message(cfg, st, m, g, r1, r2, script, s)} :
           /\ message_type(m) = "query"
           /\ call' = [NoCall EXCEPT !.op = "process_message", !.question = m,
                                     !.gen_reply = g, !.review_reply = r1,
                                     !.review2_reply = r2, !.sum_reply = s,
                                     !.script = script]
           /\ ret' = [NoRet EXCEPT !.reply = r.reply, !.err = r.error, !.db_log = r.db_log,
                                   !.llm_log = r.llm_log, !.exec_args = r.exec_args]
           /\ st' = r.st
  /\ ReadsSchema(TRUE)
  /\ memory' = append_memory(memory)
  /\ pc' = "done"
  /\ UNCHANGED <<graphvars, agentvars, leadvars, cfg, memvars>>

\* the replies of the completion service to the summarizer
SummarizerReplies ==
  SummaryReplies \cup
    {HttpError, Content(NoText), Content(<<ThoughtsLabel, "how the rows were read">>),
     Content(<<FinalLabel>>)}

\* the results summarize_result is given: what execute_sql returned
SummarizedResults ==
  {format_query_result(n, CleanListSql) : n \in 0..MaxRows}
    \cup {format_error_response(GenericExecuteError)}

\* summarize_result(natural_query, sql, result, history)
SummarizeResult ==
  /\ pc = "idle"
  /\ \E q \in Questions, result \in SummarizedResults, history \in 0..MemoryMaxTurns,
        reply \in SummarizerReplies :
       \E r \in {summarize_result_of(cfg, q, result.query, result, history, reply)} :
           /\ call' = [NoCall EXCEPT !.op = "summarize_result", !.question = q,
                                     !.sql = result.query, !.result = result,
                                     !.history = history, !.sum_reply = reply]
           /\ ret' = [NoRet EXCEPT !.reply = r.text, !.llm_log = r.llm_log]
  /\ pc' = "done"
  /\ UNCHANGED <<graphvars, agentvars, leadvars, cfg, st, memory, memvars, schemavars>>

\* sql_tools.get_mschema()
GetMschema ==
  /\ pc = "idle"
  /\ \E engine \in BuildOutcomes, inspector \in BuildOutcomes :
       \E r \in {get_mschema_str(mschema_str, cached_mschema_str, engine, inspector)} :
           /\ call' = [NoCall EXCEPT !.op = "get_mschema",
                                     !.schema = [before |-> mschema_str, engine |-> engine,
                                                 inspector |-> inspector]]
           /\ ret' = [NoRet EXCEPT !.reply = r.text]
           /\ SchemaBecomes(r)
  /\ pc' = "done"
  /\ UNCHANGED <<graphvars, agentvars, leadvars, cfg, st, memory, memvars>>

\* SQLAgent._find_top_level_clause_index(s, clause); index 0 stands for None
FindTopLevelClauseIndex ==
  /\ pc = "idle"
  /\ \E s \in ClauseQueries, clause \in Clauses :
       /\ call' = [NoCall EXCEPT !.op = "find_top_level_clause_index", !.sql = s,
                                 !.clause = clause]
       /\ ret' = [NoRet EXCEPT !.index = find_top_level_clause_index(s, clause)]
  /\ pc' = "done"
  /\ UNCHANGED <<graphvars, agentvars, leadvars, cfg, st, memory, memvars, schemavars>>

\* SQLAgent._reorder_top_level_order_limit(s)
ReorderTopLevelOrderLimit ==
  /\ pc = "idle"
  /\ \E s \in ClauseQueries :
       /\ call' = [NoCall EXCEPT !.op = "reorder_top_level_order_limit", !.sql = s]
       /\ ret' = [NoRet EXCEPT !.sql = reorder_top_level_order_limit(s)]
  /\ pc' = "done"
  /\ UNCHANGED <<graphvars, agentvars, leadvars, cfg, st, memory, memvars, schemavars>>

(***************************************************************************)
(* app.get_agent: the lazily created agent, on the threads of the server   *)
(***************************************************************************)
\* a request arrives and its thread calls get_agent()
ReceiveMessage(t) ==
  /\ requests[t].pc = "idle"
  /\ started < MaxRequests
  /\ started' = started + 1
  /\ requests' = [requests EXCEPT ![t] = [IdleRequest EXCEPT !.pc = "check", !.turn = started + 1]]
  /\ UNCHANGED <<graphvars, leadvars, cfg, st, memory, pc, call, ret, memvars, schemavars, agent, agents>>

\* if _agent is None:
CheckAgent(t) ==
  /\ requests[t].pc = "check"
  /\ requests' = [requests EXCEPT ![t].pc = IF agent = NoAgent THEN "create" ELSE "return"]
  /\ UNCHANGED <<graphvars, leadvars, cfg, st, memory, pc, call, ret, memvars, schemavars, agent, agents, started>>

\* LangGraphAgent(): a new instance, its _memory empty
CreateAgent(t) ==
  /\ requests[t].pc = "create"
  /\ agents' = Append(agents, << >>)
  /\ requests' = [requests EXCEPT ![t].pc = "assign", ![t].made = Len(agents) + 1]
  /\ UNCHANGED <<graphvars, leadvars, cfg, st, memory, pc, call, ret, memvars, schemavars, agent, started>>

\* _agent = <the new instance>
AssignAgent(t) ==
  /\ requests[t].pc = "assign"
  /\ agent' = requests[t].made
  /\ requests' = [requests EXCEPT ![t].pc = "return"]
  /\ UNCHANGED <<graphvars, leadvars, cfg, st, memory, pc, call, ret, memvars, schemavars, agents, started>>

\* return _agent
ReturnAgent(t) ==
  /\ requests[t].pc = "return"
  /\ requests' = [requests EXCEPT ![t].pc = "process", ![t].got = agent]
  /\ UNCHANGED <<graphvars, leadvars, cfg, st, memory, pc, call, ret, memvars, schemavars, agent, agents, started>>

\* get_agent().process_message(...): the turn is appended to the _memory of
\* the instance get_agent returned, and the request is answered
RecordTurn(t) ==
  /\ requests[t].pc = "process"
  /\ agents' = [agents EXCEPT ![requests[t].got] = Append(@, requests[t].turn)]
  /\ requests' = [requests EXCEPT ![t] = IdleRequest]
  /\ UNCHANGED <<graphvars, leadvars, cfg, st, memory, pc, call, ret, memvars, schemavars, agent, started>>

Tables == [parents |-> parents, staff_mapping |-> staff_mapping, process_logs |-> process_logs]

\* the tables after the handler closed its session
TablesBecome(db) ==
  /\ parents' = db.parents
  /\ staff_mapping' = db.staff_mapping
  /\ process_logs' = db.process_logs

(***************************************************************************)
(* LangGraphAgent: the workflow graph of process_message, node by node      *)
(***************************************************************************)
\* "消息格式不正确，请使用正确的模板格式"
UnknownFormatError == <<"xiaoxi", "geshibuzhengque", "qingshiyongzhengquede", "mobangeshi">>

\* the message of a success response of the business service
BusinessDoneText == <<"the operation succeeded">>

\* the messages given to process_message: the text, and for a template
\* message the fields the parser takes from it
GraphMessages ==
  {[text |-> <<"@jiqiren">> \o TodayCountQuestion, parsed |-> NoMessage],
   [text |-> WeekListQuestion, parsed |-> NoMessage],
   [text |-> <<"mobanbangzhu">>, parsed |-> NoMessage],
   [text |-> <<"nihao">>, parsed |-> NoMessage],
   [text |-> <<"[xinjiazhang]", "the fields of a new lead">>,
    parsed |-> [NoMessage EXCEPT !.message_type = "new_parent", !.sender = <<"SM", "a">>,
                                 !.assignee = <<"xs", "a">>, !.service_category = "DSE",
                                 !.contact = "wx_1", !.generated_code = "JZ0001"]],
   [text |-> <<"[fankui]", "the fields of a feedback">>,
    parsed |-> [NoMessage EXCEPT !.message_type = "feedback", !.sender = <<"xs", "a">>,
                                 !.parent_code = "JZ0001", !.feedback_type = "same_day"]]}

GraphGenReplies == {Timeout, Content(CleanListSql), Content(DistinctInLimitSql)}

GraphReviewReplies == {Timeout, Content(DistinctInLimitSql)}

GraphScripts ==
  {<<Rows(1), Rows(1), Rows(1)>>, <<Fails(ConnectionErrorText), Rows(1), Rows(1)>>,
   <<Fails(BothErrorText), Fails(RetryErrorText), Rows(1)>>,
   <<Fails(BothErrorText), Fails(RetryErrorText), Fails(RetryErrorText)>>}

\* LangGraphAgent._route_message
route_message(error, type) ==
  IF error # NoText THEN "error"
  ELSE IF type = "query" THEN "query"
  ELSE IF type = "help" THEN "help"
  ELSE IF type = "business" THEN "business"
  ELSE "error"

\* the conditional edges of parse_message (_build_graph)
RouteTarget(route) ==
  CASE route = "business" -> "handle_business_message"
    [] route = "query" -> "handle_query_message"
    [] route = "help" -> "handle_help_message"
    [] OTHER -> "generate_response"

\* the run after a node: the node is in the trace, the graph stands at next
AfterNode(r, next) == [r EXCEPT !.trace = Append(@, r.node), !.node = next]

\* process_message builds the initial state and invokes the graph at its entry point
InvokeGraph ==
  /\ run.node \in {"idle", "END"}
  /\ runs < MaxRuns
  /\ runs' = runs + 1
  /\ \E m \in GraphMessages :
       run' = [NoRun EXCEPT !.node = "parse_message", !.text = m.text, !.parsed = m.parsed]
  /\ UNCHANGED <<agentvars, leadvars, cfg, st, memory, pc, call, ret, memvars, schemavars>>

\* _parse_message_node, then the conditional edge by _route_message
ParsedRun(r, type) ==
  [r EXCEPT !.type = type, !.error = IF type = "unknown" THEN UnknownFormatError ELSE NoText]

ParseMessageNode ==
  /\ run.node = "parse_message"
  /\ \E r \in {ParsedRun(run, message_type(run.text))} :
       run' = AfterNode(r, RouteTarget(route_message(r.error, r.type)))
  /\ UNCHANGED <<agentvars, leadvars, cfg, st, memory, pc, call, ret, memvars, schemavars, runs>>

\* _handle_business_message_node: the business service handles the parsed message
BusinessRun(r, out) ==
  [r EXCEPT !.response = IF out.success THEN BusinessDoneText ELSE NoText,
            !.error = IF out.success THEN NoText ELSE <<out.error>>]

HandleBusinessMessageNode ==
  /\ run.node = "handle_business_message"
  /\ message' = run.parsed
  /\ before' = Tables
  /\ \E out \in {business_process_message(Tables, run.parsed)} :
       /\ response' = [success |-> out.success, error |-> out.error]
       /\ TablesBecome(Close(Tables, out))
       /\ run' = AfterNode(BusinessRun(run, out), "generate_response")
  /\ UNCHANGED <<agentvars, cfg, st, memory, pc, call, ret, memvars, schemavars, runs>>

\* _handle_query_message_node
QueryRun(r, n) == [r EXCEPT !.error = n.error, !.response = n.response, !.db_log = n.db_log]

HandleQueryMessageNode ==
  /\ run.node = "handle_query_message"
  /\ \E g \in GraphGenReplies, r1 \in GraphReviewReplies, r2 \in GraphReviewReplies,
        script \in GraphScripts, s \in SummaryReplies :
       \E n \in {handle_query_message_node(cfg, st, run.text, g, r1, r2, script, s)} :
           /\ run' = AfterNode(QueryRun(run, n), "generate_response")
           /\ st' = n.st
  /\ ReadsSchema(TRUE)
  /\ UNCHANGED <<agentvars, leadvars, cfg, memory, pc, call, ret, memvars, runs>>

\* _handle_help_message_node
HandleHelpMessageNode ==
  /\ run.node = "handle_help_message"
  /\ run' = AfterNode([run EXCEPT !.response = TemplateHelpText], "generate_response")
  /\ UNCHANGED <<agentvars, leadvars, cfg, st, memory, pc, call, ret, memvars, schemavars, runs>>

\* _generate_response_node, the edge to END, and process_message returns the response
RepliedRun(r, reply) == [r EXCEPT !.response = reply, !.reply = reply]

GenerateResponseNode ==
  /\ run.node = "generate_response"
  /\ run' = AfterNode(RepliedRun(run, generate_response(run.text, run.type, run.error, run.response)), "END")
  /\ memory' = append_memory(memory)
  /\ UNCHANGED <<agentvars, leadvars, cfg, st, pc, call, ret, memvars, schemavars, runs>>

\* BusinessService.process_message(parsed_message)
BusinessProcessMessage ==
  /\ message = NoMessage
  /\ Len(process_logs) < MaxLogs
  /\ \E m \in BusinessMessages :
       /\ message' = m
       /\ before' = Tables
       /\ \E out \in {business_process_message(Tables, m)} :
            /\ response' = [success |-> out.success, error |-> out.error]
            /\ TablesBecome(Close(Tables, out))
  /\ UNCHANGED <<graphvars, agentvars, cfg, st, memory, pc, call, ret, memvars, schemavars>>

\* the group has the response; the service is ready for the next message
RespondToGroup ==
  /\ message # NoMessage
  /\ message' = NoMessage
  /\ response' = NoResponse
  /\ before' = Tables
  /\ UNCHANGED <<graphvars, agentvars, cfg, st, memory, pc, call, ret, memvars, schemavars,
                 parents, staff_mapping, process_logs>>

\* the queries of the catalogues, each given to one rule at a time
RuleQueries ==
  Queries \cup ClauseQueries
    \cup {InLimitCallSql, InLimitCodeSql, InLimitSemiSql}
    \cup {RightJoinSql, WrongJoinLeftSql}
    \cup {AggregatesOnlySql, AggregateAloneSql, AggregateOutsideSql, AggregateGroupedSql}
    \cup {DistinctOffsetSql, DistinctTwoSql, DistinctCallSql}
    \cup {VerifiedFirstSql, VerifiedAloneSql, VerifiedChainedSql, VerifiedBareChainedSql}

\* SQLAgent._rewrite_in_with_limit_to_join(sql)
RewriteInWithLimitToJoin ==
  /\ pc = "idle"
  /\ \E s \in RuleQueries :
       /\ call' = [NoCall EXCEPT !.op = "rewrite_in_with_limit_to_join", !.sql = s]
       /\ ret' = [NoRet EXCEPT !.sql = rewrite_in_with_limit_to_join(s)]
  /\ pc' = "done"
  /\ UNCHANGED <<graphvars, agentvars, leadvars, cfg, st, memory, memvars, schemavars>>

\* SQLAgent._review_and_fix_sql, the repair of the unwarranted is_verified filter
RemoveUnwarrantedIsVerified ==
  /\ pc = "idle"
  /\ \E s \in RuleQueries, q \in Questions :
       /\ call' = [NoCall EXCEPT !.op = "remove_unwarranted_is_verified",
                                 !.sql = s, !.question = q]
       /\ \E issues \in {static_sql_issues(s, q)} :
            ret' = [NoRet EXCEPT !.issues = issues, !.sql = RemoveVerifiedIf(s, issues)]
  /\ pc' = "done"
  /\ UNCHANGED <<graphvars, agentvars, leadvars, cfg, st, memory, memvars, schemavars>>

\* SQLAgent._review_and_fix_sql, the repair of the join key
FixWrongJoin ==
  /\ pc = "idle"
  /\ \E s \in RuleQueries, q \in Questions :
       /\ call' = [NoCall EXCEPT !.op = "fix_wrong_join", !.sql = s, !.question = q]
       /\ \E issues \in {static_sql_issues(s, q)} :
            ret' = [NoRet EXCEPT !.issues = issues, !.sql = fix_wrong_join(s, issues)]
  /\ pc' = "done"
  /\ UNCHANGED <<graphvars, agentvars, leadvars, cfg, st, memory, memvars, schemavars>>

\* SQLAgent._fix_distinct_orderby_not_in_select(sql)
FixDistinctOrderbyNotInSelect ==
  /\ pc = "idle"
  /\ \E s \in RuleQueries :
       /\ call' = [NoCall EXCEPT !.op = "fix_distinct_orderby_not_in_select", !.sql = s]
       /\ ret' = [NoRet EXCEPT !.sql = fix_distinct_orderby_not_in_select(s)]
  /\ pc' = "done"
  /\ UNCHANGED <<graphvars, agentvars, leadvars, cfg, st, memory, memvars, schemavars>>

\* SQLAgent._static_sql_issues(sql, natural_query)
StaticSqlIssues ==
  /\ pc = "idle"
  /\ \E s \in RuleQueries, q \in Questions :
       /\ call' = [NoCall EXCEPT !.op = "static_sql_issues", !.sql = s, !.question = q]
       /\ ret' = [NoRet EXCEPT !.issues = static_sql_issues(s, q)]
  /\ pc' = "done"
  /\ UNCHANGED <<graphvars, agentvars, leadvars, cfg, st, memory, memvars, schemavars>>

\* the caller takes the result
Return ==
  /\ pc = "done"
  /\ pc' = "idle"
  /\ call' = NoCall
  /\ ret' = NoRet
  /\ UNCHANGED <<graphvars, agentvars, leadvars, cfg, st, memory, memvars, schemavars>>

Next ==
  \/ ExecuteSql \/ EvaluateAndFixSql \/ GenerateSql \/ Query \/ ProcessMessage
  \/ SummarizeResult \/ GetMschema \/ FindTopLevelClauseIndex
  \/ ReorderTopLevelOrderLimit \/ RewriteInWithLimitToJoin
  \/ RemoveUnwarrantedIsVerified \/ FixWrongJoin
  \/ FixDistinctOrderbyNotInSelect \/ StaticSqlIssues
  \/ BusinessProcessMessage \/ RespondToGroup \/ Return

Spec == Init /\ [][Next]_vars

\* the same process when its callers use one entry point only
NextExecute == ExecuteSql \/ Return

SpecExecute == Init /\ [][NextExecute]_vars

NextReview == EvaluateAndFixSql \/ Return

SpecReview == Init /\ [][NextReview]_vars

NextGenerate == GenerateSql \/ Query \/ Return

SpecGenerate == Init /\ [][NextGenerate]_vars

NextMessage == ProcessMessage \/ Return

SpecMessage == Init /\ [][NextMessage]_vars

\* the two entry points that answer a question
NextPipeline == Query \/ ProcessMessage \/ Return

SpecPipeline == Init /\ [][NextPipeline]_vars

NextSummarize == SummarizeResult \/ Return

SpecSummarize == Init /\ [][NextSummarize]_vars

NextSchema == GetMschema \/ Return

SpecSchema == Init /\ [][NextSchema]_vars

NextClauses == FindTopLevelClauseIndex \/ ReorderTopLevelOrderLimit \/ Return

SpecClauses == Init /\ [][NextClauses]_vars

\* the rules of review-and-fix, one at a time
NextRules ==
  \/ RewriteInWithLimitToJoin
  \/ RemoveUnwarrantedIsVerified
  \/ FixWrongJoin
  \/ FixDistinctOrderbyNotInSelect
  \/ StaticSqlIssues
  \/ Return

SpecRules == Init /\ [][NextRules]_vars

\* the business messages of the group, one after the other
NextLeads ==
  \/ BusinessProcessMessage
  \/ RespondToGroup

SpecLeads == Init /\ [][NextLeads]_vars

\* the requests of the web server on its threads, each through get_agent
NextAgents ==
  \E t \in Threads :
    \/ ReceiveMessage(t)
    \/ CheckAgent(t)
    \/ CreateAgent(t)
    \/ AssignAgent(t)
    \/ ReturnAgent(t)
    \/ RecordTurn(t)

SpecAgents == Init /\ [][NextAgents]_vars

\* the workflow graph of process_message
NextGraph ==
  \/ InvokeGraph
  \/ ParseMessageNode
  \/ HandleBusinessMessageNode
  \/ HandleQueryMessageNode
  \/ HandleHelpMessageNode
  \/ GenerateResponseNode

SpecGraph == Init /\ [][NextGraph]_vars

\* _append_memory(sender, user_text, assistant_text) while no other request is
\* inside it
AppendMemory ==
  /\ pc = "idle"
  /\ appends < MaxAppends
  /\ \A t \in Threads : threads[t].pc = "idle"
  /\ \E sender \in MemorySenders :
       \E r \in {append_memory_of(memory_store, lists, max_turns, sender, appends + 1)} :
           /\ memory_store' = r.store
           /\ lists' = r.heap
           /\ appended' = IF sender = "" THEN appended
                          ELSE [appended EXCEPT ![sender] = Append(@, appends + 1)]
  /\ appends' = appends + 1
  /\ UNCHANGED <<graphvars, agentvars, leadvars, cfg, st, memory, pc, call, ret, schemavars, max_turns, threads>>

NextMemory == AppendMemory

SpecMemory == InitMemory /\ [][NextMemory]_vars

(***************************************************************************)
(* The same method when requests run it side by side.  app.py serves each  *)
(* request by asyncio.run(get_agent().process_message(...)) on the thread  *)
(* of the request, all on one agent, and _append_memory takes no lock: a   *)
(* thread may be suspended between any two of its statements.              *)
(***************************************************************************)
\* the request of thread t calls _append_memory: `if not sender: return`
EnterAppend(t) ==
  /\ pc = "idle"
  /\ appends < MaxAppends
  /\ threads[t].pc = "idle"
  /\ \E sender \in MemorySenders :
       /\ threads' = IF sender = "" THEN threads
                     ELSE [threads EXCEPT ![t] = [pc |-> "get", sender |-> sender,
                                                  turn |-> appends + 1, turns |-> NoList]]
       /\ appended' = IF sender = "" THEN appended
                      ELSE [appended EXCEPT ![sender] = Append(@, appends + 1)]
  /\ appends' = appends + 1
  /\ UNCHANGED <<graphvars, agentvars, leadvars, cfg, st, memory, pc, call, ret, schemavars, max_turns, memory_store, lists>>

\* turns = self._memory.get(sender, [])
GetTurns(t) ==
  /\ threads[t].pc = "get"
  /\ \E g \in {memory_get(memory_store, lists, threads[t].sender)} :
       /\ lists' = g.heap
       /\ threads' = [threads EXCEPT ![t].pc = "append", ![t].turns = g.ref]
  /\ UNCHANGED <<graphvars, agentvars, leadvars, cfg, st, memory, pc, call, ret, schemavars, max_turns, memory_store, appended, appends>>

\* turns.append({...})
AppendTurn(t) ==
  /\ threads[t].pc = "append"
  /\ lists' = turns_append(lists, threads[t].turns, threads[t].turn)
  /\ threads' = [threads EXCEPT ![t].pc = "truncate"]
  /\ UNCHANGED <<graphvars, agentvars, leadvars, cfg, st, memory, pc, call, ret, schemavars, max_turns, memory_store, appended, appends>>

\* if len(turns) > self._memory_max_turns: turns = turns[-self._memory_max_turns:]
TruncateTurns(t) ==
  /\ threads[t].pc = "truncate"
  /\ \E g \in {turns_truncate(lists, threads[t].turns, max_turns)} :
       /\ lists' = g.heap
       /\ threads' = [threads EXCEPT ![t].pc = "set", ![t].turns = g.ref]
  /\ UNCHANGED <<graphvars, agentvars, leadvars, cfg, st, memory, pc, call, ret, schemavars, max_turns, memory_store, appended, appends>>

\* self._memory[sender] = turns, and the method returns
SetTurns(t) ==
  /\ threads[t].pc = "set"
  /\ memory_store' = memory_set(memory_store, threads[t].sender, threads[t].turns)
  /\ threads' = [threads EXCEPT ![t] = IdleThread]
  /\ UNCHANGED <<graphvars, agentvars, leadvars, cfg, st, memory, pc, call, ret, schemavars, max_turns, lists, appended, appends>>

NextThreads ==
  \E t \in Threads :
    EnterAppend(t) \/ GetTurns(t) \/ AppendTurn(t) \/ TruncateTurns(t) \/ SetTurns(t)

SpecThreads == InitMemory /\ [][NextThreads]_vars

(***************************************************************************)
(* The Guarded Executor: properties of execute_sql                         *)
(***************************************************************************)
\* the statement passes both pre-flight checks
ReadOnly(sql) == StartsWithSelect(sql) /\ DangerousAt(sql) = 0

\* C1: every statement that execute_sql hands to the database, the first attempt
\* and any retry with a rewritten query, begins with SELECT and holds no
\* dangerous keyword as a whole word; a query failing either check is rejected
\* without any execution by the database.
ExecutedStatementsAreReadOnly ==
  call.op = "execute_sql" =>
    /\ \A i \in 1..Len(ret.db_log) : ReadOnly(ret.db_log[i])
    /\ ~ReadOnly(call.sql) => ret.db_log = << >>

\* C2: within one call of execute_sql the database executes at most twice, one
\* attempt and at most one retry, whatever the error of the first attempt and
\* whether or not the retry fails; a failed retry ends the call with the
\* generic failure and starts no second retry.
AtMostOneRetry ==
  call.op = "execute_sql" =>
    /\ Len(ret.db_log) <= 2
    /\ (Len(ret.db_log) = 2 /\ ~call.script[2].ok) =>
         ret.payload = format_error_response(GenericExecuteError)

\* the parts of the texts that only the database and the pre-flight checks write
DatabaseErrorParts ==
  UNION {{e[i] : i \in 1..Len(e)} : e \in FirstErrors \cup {RetryErrorText}}

PreflightErrorParts ==
  {OnlySelectError[1], DangerousKeywordError("DROP")[1]} \cup DangerousKeywords

\* C6: every failure payload of execute_sql carries the fixed generic message
\* and nothing else: neither the error text of the first attempt, nor the
\* error text of a failed retry, nor the reason of a pre-flight rejection.
FailurePayloadIsGeneric ==
  (call.op = "execute_sql" /\ ~ret.payload.success) =>
    /\ ret.payload = format_error_response(GenericExecuteError)
    /\ \A x \in DatabaseErrorParts \cup PreflightErrorParts : ~PartOf(x, ret.payload.error)

\* a retry that failed was answered with the generic message
FailedRetryIsGeneric ==
  /\ call.op = "execute_sql"
  /\ Len(ret.db_log) = 2
  /\ call.script[1].err = DistinctErrorText
  /\ call.script[2].err = RetryErrorText
  /\ ~ret.payload.success

\* the error text err matches a signature whose rewrite changes the query sql
LimitInApplies(sql, err, rewritten) ==
  PartOf(LimitInSignature, err) /\ rewritten # NoText /\ rewritten # sql

DistinctApplies(sql, err, rewritten) ==
  /\ \/ PartOf(IncompatibleDistinctSignature, err)
     \/ PartOf(NotInSelectListSignature, err) /\ \E i \in 1..Len(sql) : Upper(sql[i]) = "DISTINCT"
  /\ rewritten # NoText /\ rewritten # sql

Remediable(sql, err) ==
  \/ LimitInApplies(sql, err, rewrite_in_with_limit_to_join(sql))
  \/ DistinctApplies(sql, err, fix_distinct_orderby_not_in_select(sql))

\* C8: a retry happens only when the error text of the first failure matches a
\* known signature and the rewrite of that signature changes the query; when
\* the text matches no signature, or the matched rewrite returns the query
\* unchanged, execute_sql executes nothing a second time and returns the
\* failure payload.
RetryOnlyWhenRemediable ==
  (call.op = "execute_sql" /\ ReadOnly(call.sql) /\ ~call.script[1].ok) =>
    /\ Len(ret.db_log) >= 2 => Remediable(call.sql, call.script[1].err)
    /\ ~Remediable(call.sql, call.script[1].err) =>
         /\ ret.db_log = <<call.sql>>
         /\ ret.payload = format_error_response(GenericExecuteError)

\* a matched signature whose rewrite leaves the query as it was: no retry
MatchedButUnchanged ==
  /\ call.op = "execute_sql"
  /\ call.sql = CleanListSql
  /\ PartOf(IncompatibleDistinctSignature, call.script[1].err)
  /\ ~call.script[1].ok
  /\ fix_distinct_orderby_not_in_select(call.sql) = call.sql
  /\ ret.db_log = <<call.sql>>
  /\ ~ret.payload.success

(***************************************************************************)
(* Review-and-fix: properties of evaluate_and_fix_sql                      *)
(***************************************************************************)
\* C3: idempotence of rewriting.  After the rule-based rewrites of
\* review-and-fix have been applied to a query, running the static detector
\* again on the result flags none of the defects the rewrites target.  (With a
\* failed call of the service the value returned is the rewritten query.)
RewriteIsIdempotent ==
  (call.op = "evaluate_and_fix_sql" /\ call.review_reply \in FailedReplies) =>
    static_sql_issues(ret.sql, call.question) \cap TargetedIssues = {}

\* the rule-based rewrites left no defect in the query rewritten: then no review
\* call is made and the query rewritten is what is returned
FinalWhenClean(rewritten) ==
  static_sql_issues(rewritten, call.question) = {} =>
    (ret.llm_log = << >> /\ ret.sql = rewritten)

\* C12: after the rule-based rewrites the defects are computed once more on the
\* query rewritten, and the completion service is called for a review only if
\* some defect remains; when the rewrites remove every defect detected, no
\* review call is made and the query rewritten is final.
ReviewOnlyForRemainingDefects ==
  call.op = "evaluate_and_fix_sql" =>
    \E issues \in {static_sql_issues(call.sql, call.question)} :
      issues # {} => FinalWhenClean(deterministic_rewrite(call.sql, issues))

\* what the service's reply holds once the fences and the whitespace are stripped
CleanedContent(reply) == Strip(StripFences(Strip(reply.content)))

\* C4: evaluate_and_fix_sql returns a query for every input and every outcome
\* of the call of the completion service (success, non-200, timeout, empty
\* content) and never raises; when the detector reports no defect it returns
\* the input unchanged and does not call the service.
ReviewAlwaysReturns ==
  call.op = "evaluate_and_fix_sql" =>
    \E issues \in {static_sql_issues(call.sql, call.question)} :
      /\ ~ret.raised
      /\ issues = {} => (ret.sql = call.sql /\ ret.llm_log = << >>)
      /\ issues # {} =>
           /\ ret.llm_log = <<"review">>
           /\ ret.sql \in {deterministic_rewrite(call.sql, issues),
                           CleanedContent(call.review_reply)}

\* a query without defect came back as it was, the service was not called
CleanQueryUntouched ==
  /\ call.op = "evaluate_and_fix_sql"
  /\ call.sql = CleanListSql
  /\ call.review_reply = Content(FencedWrongJoinReply)
  /\ static_sql_issues(call.sql, call.question) = {}
  /\ ret.sql = call.sql
  /\ ret.llm_log = << >>

(***************************************************************************)
(* Generation and the pipeline: properties of generate_sql and query       *)
(***************************************************************************)
\* C5: generate_sql returns a query that is not empty or fails with an error;
\* it never returns an empty query, whatever the completion service replies
\* (a reply that is empty once fences and whitespace are stripped included)
\* and for every question that matches no rule template.
GenerateNeverEmpty ==
  call.op = "generate_sql" => (ret.raised \/ ret.sql # NoText)

\* the query the review makes of sql when the call of the service fails
RepairedByRules(sql, issues) ==
  IF issues = {} THEN sql ELSE deterministic_rewrite(sql, issues)

\* the outcome of a call whose review asked the service for sql and got no answer:
\* generate_sql returns repaired, query executes repaired
ContinuesWith(sql, issues, repaired) ==
  issues # {} =>
    /\ call.op = "generate_sql" => (~ret.raised /\ ret.sql = repaired)
    /\ call.op = "query" =>
         /\ ret.exec_args = <<repaired>>
         /\ PreflightError(repaired) = NoText =>
              (Len(ret.db_log) >= 1 /\ ret.db_log[1] = repaired)

ReviewedAfter(sql) ==
  \E issues \in {static_sql_issues(sql, call.question)} :
    ContinuesWith(sql, issues, RepairedByRules(sql, issues))

\* C9: when the call of the completion service for the secondary review fails
\* (transport error, timeout, non-200, empty content), review-and-fix returns
\* exactly the query the rule-based rewrites had produced before the call, and
\* the pipeline goes on to execute that query.
FailedReviewKeepsRewrite ==
  (call.op \in {"generate_sql", "query"} /\ call.review_reply \in FailedReplies) =>
    \E gen \in {GenerationStep(st, call.question, call.gen_reply)} :
      gen.out.ok => ReviewedAfter(Strip(StripFences(gen.out.sql)))

\* the review of a generated query with a defect timed out; the repaired query,
\* not the generated one, was handed to the database
RepairedQueryExecuted ==
  /\ call.op = "query"
  /\ call.review_reply = Timeout
  /\ call.gen_reply = Content(DistinctSql)
  /\ st.llm_mode = "openai_direct"
  /\ ret.llm_log = <<"generate", "review">>
  /\ Len(ret.db_log) >= 1
  /\ ret.db_log[1] # Strip(DistinctSql)
  /\ ret.db_log[1] = deterministic_rewrite(Strip(DistinctSql),
                                           static_sql_issues(DistinctSql, call.question))

\* C10: when the call of the completion service for the generation fails
\* (timeout or a response that is not 2xx), the generation falls back to the
\* rule-based templates in every configured LLM mode, the chain of the
\* framework and the direct HTTP call alike; the request fails only if the
\* rules yield no query either.
GenerationFallsBackToRules ==
  (/\ call.op = "generate_sql"
   /\ st.llm_mode # "none"
   /\ call.gen_reply.kind \in {"timeout", "http_error"}) =>
    (ret.raised <=> ~rule_based_sql(call.question).ok)

(***************************************************************************)
(* What the user sees: properties of query and process_message             *)
(***************************************************************************)
\* the parts of the texts that only the completion service and its clients write
ServiceErrorParts ==
  {TransportErrorText[1], HttpErrorText[1], HttpErrorText[2], HttpErrorText[4],
   ChainErrorText(Timeout)[1], ChainErrorText(HttpError)[1]}

RawErrorParts == DatabaseErrorParts \cup ServiceErrorParts

\* C7: for a question handled by process_message (a message of the query type)
\* or by SQLAgent.query, whenever the generation, the review, the execution or
\* the summary fails, the text given to the user is a fixed friendly message:
\* the raw error text of the database and of the completion service (status
\* code, response body) never appears in what the user sees.
RepliesHideRawErrors ==
  /\ (call.op = "query" /\ ~ret.payload.success) =>
       \A x \in RawErrorParts : ~PartOf(x, ret.payload.error)
  /\ call.op = "process_message" =>
       \A x \in RawErrorParts : ~PartOf(x, ret.reply)

(***************************************************************************)
(* The summarizer: properties of summarize_result                          *)
(***************************************************************************)
\* the rule-based summary of a successful result
RuleBasedSummary(result) == IF result.total = 0 THEN NoRecordsText ELSE RuleSummaryText

\* the completion service was asked for the summary and the call failed
SummaryCallFailed ==
  /\ call.op = "summarize_result"
  /\ call.result.success
  /\ cfg.api_key # ""
  /\ call.sum_reply \in FailedReplies

\* C11: when the call of the completion service for the summary fails,
\* summarize_result returns the rule-based summary of the successful result:
\* the failure is not fatal, summarize_result does not raise and the request
\* still gets an answer.
FailedSummaryFallsBack ==
  SummaryCallFailed =>
    /\ ~ret.raised
    /\ ret.llm_log = <<"summarize">>
    /\ ret.reply = RuleBasedSummary(call.result)
    /\ ret.reply # NoText

\* the service answered 500 for a result with rows: the table summary came back
TableSummaryAfterHttpError ==
  /\ SummaryCallFailed
  /\ call.sum_reply = HttpError
  /\ call.result.total = 1
  /\ ret.reply = RuleSummaryText

\* the summary was made without an answer of the completion service
OnFallbackPath ==
  /\ call.op = "summarize_result"
  /\ call.result.success
  /\ cfg.api_key = "" \/ call.sum_reply \in FailedReplies

\* C15: for a successful result with zero rows the fallback path of the
\* summarizer returns the same fixed "no records" message, whatever the
\* question, the query and the history are.
EmptyResultSummary ==
  (OnFallbackPath /\ call.result.total = 0) => ret.reply = NoRecordsText

\* an empty result was summarized on the fallback path for a list question with
\* turns in the history
EmptyResultSummarized ==
  /\ OnFallbackPath
  /\ call.result.total = 0
  /\ call.question = WeekListQuestion
  /\ call.history = MemoryMaxTurns
  /\ ret.reply = NoRecordsText

\* the reply of the service holds the label of the final answer
HasFinalLabel(reply) == PartOf(FinalLabel, reply.content)

\* C16: on the path of the completion service the summarizer returns only the
\* final-answer section of the reply; the reasoning section is never part of
\* the text returned, and when the labeled sections cannot be parsed the
\* summarizer uses the rule-based fallback instead of the raw reply.
SummaryHidesReasoning ==
  (/\ call.op = "summarize_result"
   /\ call.result.success
   /\ cfg.api_key # ""
   /\ call.sum_reply.kind = "ok"
   /\ call.sum_reply.content # NoText) =>
    /\ ~PartOf(ThoughtsLabel, ret.reply)
    /\ ~HasFinalLabel(call.sum_reply) => ret.reply = RuleBasedSummary(call.result)


(***************************************************************************)
(* The conversation memory: properties of _append_memory                   *)
(***************************************************************************)
\* the last n of the turns appended for a sender, oldest first
MostRecent(turns, n) ==
  IF Len(turns) <= n THEN turns ELSE SubSeq(turns, Len(turns) - n + 1, Len(turns))

\* C13: after any sequence of appends every sender's memory holds at most N
\* turns, N the configured maximum, and they are the most recent turns
\* appended for that sender, in append order
MemoryHoldsMostRecentTurns ==
  \A s \in MemorySenders :
    /\ Len(TurnsOf(memory_store, lists, s)) <= max_turns
    /\ TurnsOf(memory_store, lists, s) = MostRecent(appended[s], max_turns)

NoRequestInside == \A t \in Threads : threads[t].pc = "idle"

TurnsKept(s) ==
  {TurnsOf(memory_store, lists, s)[i] : i \in 1..Len(TurnsOf(memory_store, lists, s))}

\* C14: when requests of one sender append side by side, in any interleaving
\* of the read, append, truncate and write-back steps, every turn ends up in
\* the sender's memory: once no request is inside the method, a sender whose
\* turns all fit the maximum has every one of them in memory
ConcurrentAppendsAllKept ==
  NoRequestInside =>
    \A s \in MemorySenders :
      Len(appended[s]) <= max_turns =>
        \A i \in 1..Len(appended[s]) : appended[s][i] \in TurnsKept(s)


(***************************************************************************)
(* The schema context: properties of _get_mschema_str                      *)
(***************************************************************************)
\* the read built the schema context and neither attempt succeeded
BuildFailed ==
  /\ call.op = "get_mschema"
  /\ call.schema.before = NoText
  /\ call.schema.engine # "ok"
  /\ call.schema.inspector # "ok"

\* C17: the schema context is built once per process: the database is asked
\* for its schema at most once whether the first build succeeds or fails,
\* every later read returns the string of the first, and a failed build
\* yields the hand-maintained description of the tables
SchemaContextBuiltOnce ==
  /\ introspections <= 1
  /\ call.op = "get_mschema" /\ call.schema.before # NoText => ret.reply = call.schema.before
  /\ BuildFailed => ret.reply = SchemaInfoText


(***************************************************************************)
(* The clause search and the limit/order reorder                           *)
(***************************************************************************)
\* the clause keyword starts at atom i: LIMIT, or ORDER, whitespace, BY
ClauseStartsAt(s, i, clause) ==
  IF clause = "ORDER BY" THEN Kw2At(s, i, "ORDER", "BY") # 0 ELSE KwWordAt(s, i, clause)

\* the first occurrence of the clause at parenthesis depth zero, 0 when none
TopLevelClause(s, clause) ==
  First({i \in 1..Len(s) : ClauseStartsAt(s, i, clause) /\ ParenDepth(s, i - 1) = 0})

\* C19: _find_top_level_clause_index returns the position of the first
\* occurrence of the clause keyword at parenthesis depth zero, and no position
\* when every occurrence lies inside parentheses
FindReturnsFirstTopLevel ==
  call.op = "find_top_level_clause_index" =>
    ret.index = TopLevelClause(call.sql, call.clause)

\* C18: the reorder changes a query only when a LIMIT at parenthesis depth
\* zero precedes an ORDER BY at parenthesis depth zero; a query in which one
\* of the two occurs only inside parentheses is left as it is
ReorderOnlyAtTopLevel ==
  (call.op = "reorder_top_level_order_limit" /\ ret.sql # call.sql) =>
    LimitBeforeOrderBy(TopLevelClause(call.sql, "ORDER BY"), TopLevelClause(call.sql, "LIMIT"))

NotSpace(a) == ~IsSpace(a)

\* the text without its whitespace
Words(s) == SelectSeq(s, NotSpace)

\* the index of the statement terminator that ends the text, else the end
TerminatorAt(s) == IF AtomAt(s, RStripEnd(s)) = ";" THEN RStripEnd(s) ELSE Len(s) + 1

\* the text before the two clauses, the ORDER BY clause, the LIMIT clause, the
\* terminator
Reordered(s, order_idx, limit_idx, end) ==
  Words(Slice(s, 1, limit_idx)) \o Words(Slice(s, order_idx, end))
    \o Words(Slice(s, limit_idx, order_idx)) \o Words(From(s, end))

\* C20: for a query whose top-level LIMIT precedes its top-level ORDER BY the
\* reorder emits the text before the two clauses, then the ORDER BY clause,
\* then the LIMIT clause, then the statement terminator if there was one
ReorderEmitsOrderThenLimit ==
  (/\ call.op = "reorder_top_level_order_limit"
   /\ LimitBeforeOrderBy(TopLevelClause(call.sql, "ORDER BY"),
                         TopLevelClause(call.sql, "LIMIT"))) =>
    Words(ret.sql) = Reordered(call.sql, TopLevelClause(call.sql, "ORDER BY"),
                               TopLevelClause(call.sql, "LIMIT"), TerminatorAt(call.sql))


(***************************************************************************)
(* The rule-based rewrites and the detector, one rule at a time            *)
(***************************************************************************)
\* the closing parenthesis that matches the one opened at atom o, 0 when none
MatchingClose(s, o) ==
  First({k \in (o + 1)..Len(s) : s[k] = ")" /\ ParenDepth(s, k) = ParenDepth(s, o - 1)})

\* FROM parents <a> WHERE <a>.id IN (SELECT with FROM at atom f, written with
\* single blanks as the catalogue does
MembershipFormAt(s, f) ==
  /\ f + 15 <= Len(s)
  /\ Upper(s[f]) = "FROM" /\ Upper(s[f + 2]) = "PARENTS" /\ Upper(s[f + 6]) = "WHERE"
  /\ IsIdentAtom(s[f + 4]) /\ s[f + 8] = s[f + 4] /\ s[f + 9] = "."
  /\ Upper(s[f + 10]) = "ID" /\ Upper(s[f + 12]) = "IN" /\ s[f + 14] = "("
  /\ Upper(s[f + 15]) = "SELECT"
  /\ MatchingClose(s, f + 14) # 0
  /\ \E l \in (f + 15)..MatchingClose(s, f + 14) : Upper(s[l]) = "LIMIT"

MembershipForm(s) == First({f \in 1..Len(s) : MembershipFormAt(s, f)})

\* the parents alias joined to the derived table of the inner subquery, the
\* membership predicate gone, the rest of the query kept
JoinedToDerived(s, f, close) ==
  Words(Slice(s, 1, f + 5))
    \o Words(JoinClause(Slice(s, f + 15, close), <<s[f + 4]>>))
    \o Words(From(s, close + 1))

\* some alias of parents has its id tested by IN (SELECT
HasMembershipOfAlias(s) ==
  \E f \in 1..Len(s), i \in 1..Len(s) :
    /\ Upper(s[f]) = "FROM" /\ Upper(AtomAt(s, f + 2)) = "PARENTS"
    /\ IsWordAt(s, f + 4) /\ s[i] = s[f + 4]
    /\ AtomAt(s, i + 1) = "." /\ Upper(AtomAt(s, i + 2)) = "ID"
    /\ InSelectAt(s, SkipSpaces(s, i + 3)) # 0

\* C21: for a query of the form FROM parents <a> WHERE <a>.id IN (SELECT ...
\* LIMIT n) the rewrite joins <a> to a derived table built from the inner
\* subquery on <a>.id = derived.parent_id and the membership predicate is
\* gone; when the alias or the IN block cannot be found the query is returned
\* unchanged
MembershipBecomesJoin ==
  call.op = "rewrite_in_with_limit_to_join" =>
    /\ MembershipForm(call.sql) # 0 =>
         Words(ret.sql) = JoinedToDerived(call.sql, MembershipForm(call.sql),
                                          MatchingClose(call.sql, MembershipForm(call.sql) + 14))
    /\ ~HasMembershipOfAlias(call.sql) => ret.sql = call.sql

\* the predicates of a filter, the words between its ANDs
RECURSIVE Conjuncts(_)
Conjuncts(ws) ==
  LET a == First({i \in 1..Len(ws) : Upper(ws[i]) = "AND"})
  IN  IF a = 0 THEN << ws >>
      ELSE << SubSeq(ws, 1, a - 1) >> \o Conjuncts(SubSeq(ws, a + 1, Len(ws)))

\* is_verified = 1, with or without the alias of its table
VerifiedPredicate(c) ==
  \/ Len(c) = 3 /\ Upper(c[1]) = "IS_VERIFIED" /\ c[2] = "=" /\ c[3] = "1"
  \/ Len(c) = 5 /\ c[2] = "." /\ Upper(c[3]) = "IS_VERIFIED" /\ c[4] = "=" /\ c[5] = "1"

NotVerifiedPredicate(c) == ~VerifiedPredicate(c)

\* the filter of a query that ends with its WHERE clause
WhereOf(s) == First({i \in 1..Len(s) : Upper(s[i]) = "WHERE"})

FilterOf(s) == Conjuncts(Words(From(s, WhereOf(s) + 1)))

FiltersOnVerified(s) ==
  /\ WhereOf(s) # 0
  /\ \A i \in 1..Len(s) : s[i] \notin {"(", ")", ";"}
  /\ \E k \in 1..Len(FilterOf(s)) : VerifiedPredicate(FilterOf(s)[k])

\* the query with the other predicates of its filter, connected by AND
WithFilter(head, rest) ==
  IF rest = << >> THEN head ELSE head \o <<"WHERE">> \o Join(rest, <<"AND">>)

WithoutVerified(s) ==
  WithFilter(Words(Slice(s, 1, WhereOf(s))), SelectSeq(FilterOf(s), NotVerifiedPredicate))

\* C22: when the question has no verification language and the query filters
\* on is_verified = 1, the repair removes that predicate, alone after WHERE,
\* first conjunct or chained with AND, and the remaining filter keeps its
\* other predicates connected by AND
VerifiedFilterRemoved ==
  (/\ call.op = "remove_unwarranted_is_verified"
   /\ ~wants_verified(call.question)
   /\ FiltersOnVerified(call.sql))
    => Words(ret.sql) = WithoutVerified(call.sql)

\* the words FROM parents <p> and JOIN parent_contacts <pc> are in w, and at
\* word o: ON <p>.<key> = <pc>.parent_id
JoinedOnAt(w, o, key) ==
  /\ o + 7 <= Len(w)
  /\ Upper(w[o]) = "ON" /\ w[o + 2] = "." /\ Upper(w[o + 3]) = key /\ w[o + 4] = "="
  /\ w[o + 6] = "." /\ Upper(w[o + 7]) = "PARENT_ID"
  /\ \E f \in 1..Len(w) :
       Upper(w[f]) = "FROM" /\ Upper(w[f + 1]) = "PARENTS" /\ w[f + 2] = w[o + 1]
  /\ \E j \in 1..Len(w) :
       Upper(w[j]) = "JOIN" /\ Upper(w[j + 1]) = "PARENT_CONTACTS" /\ w[j + 2] = w[o + 5]

JoinedOn(w, key) == First({o \in 1..Len(w) : JoinedOnAt(w, o, key)})

\* the words of the query with the key of parents in the condition at word o
WithKey(w, o, key) == [w EXCEPT ![o + 3] = key]

TopLevel(w, i) == ParenDepth(w, i - 1) = 0

TopWord(w, i, kw) == i <= Len(w) /\ Upper(w[i]) = kw /\ TopLevel(w, i)

\* the items of a list, the words between its top-level commas
RECURSIVE TopItems(_)
TopItems(ws) ==
  LET c == First({i \in 1..Len(ws) : ws[i] = "," /\ TopLevel(ws, i)})
  IN  IF c = 0 THEN << ws >>
      ELSE << SubSeq(ws, 1, c - 1) >> \o TopItems(SubSeq(ws, c + 1, Len(ws)))

\* SELECT DISTINCT <columns> FROM <body> ORDER BY <items> [LIMIT <rows>] [;]
TopFrom(w) == First({i \in 1..Len(w) : TopWord(w, i, "FROM")})
TopOrderBy(w) == First({i \in 1..Len(w) : TopWord(w, i, "ORDER") /\ TopWord(w, i + 1, "BY")})
TopLimit(w) == First({i \in TopOrderBy(w)..Len(w) : TopWord(w, i, "LIMIT")})
ContentEnd(w) == IF w[Len(w)] = ";" THEN Len(w) - 1 ELSE Len(w)
Terminator(w) == IF w[Len(w)] = ";" THEN <<";">> ELSE << >>

DistinctForm(w) ==
  /\ Len(w) >= 2 /\ Upper(w[1]) = "SELECT" /\ Upper(w[2]) = "DISTINCT"
  /\ TopFrom(w) # 0 /\ TopOrderBy(w) > TopFrom(w)

DistinctColumns(w) == SubSeq(w, 3, TopFrom(w) - 1)
RowLimit(w) == IF TopLimit(w) = 0 THEN << >> ELSE SubSeq(w, TopLimit(w), ContentEnd(w))
OrderingEnd(w) == IF TopLimit(w) = 0 THEN ContentEnd(w) ELSE TopLimit(w) - 1
OrderingItems(w) == TopItems(SubSeq(w, TopOrderBy(w) + 2, OrderingEnd(w)))

\* the direction of an ordering item and the expression it orders by
Descending(item) == Upper(item[Len(item)]) = "DESC"
Directed(item) == Upper(item[Len(item)]) \in {"ASC", "DESC"}
Ordered(item) == IF Directed(item) THEN SubSeq(item, 1, Len(item) - 1) ELSE item

\* MAX for descending, MIN otherwise, under the generated alias
AggregateOf(item, i) ==
  << IF Descending(item) THEN "MAX" ELSE "MIN", "(" >> \o Ordered(item)
    \o <<")", "AS">> \o OrderAlias(i)

AliasOrder(item, i) == OrderAlias(i) \o << IF Descending(item) THEN "DESC" ELSE "ASC" >>

\* the name of an output column: the last word of its item
ColumnName(item) == << item[Len(item)] >>

Commas(parts) == Join(parts, <<",">>)

GroupedAndOrdered(w, cols, items) ==
  <<"SELECT">> \o Commas([i \in 1..Len(cols) |-> ColumnName(cols[i])])
    \o <<"FROM", "(", "SELECT">> \o DistinctColumns(w) \o <<",">>
    \o Commas([i \in 1..Len(items) |-> AggregateOf(items[i], i)])
    \o SubSeq(w, TopFrom(w), TopOrderBy(w) - 1)
    \o <<"GROUP", "BY">> \o DistinctColumns(w)
    \o <<")", "AS", "__t", "ORDER", "BY">>
    \o Commas([i \in 1..Len(items) |-> AliasOrder(items[i], i)])
    \o RowLimit(w) \o Terminator(w)

\* C24: the rewritten query has an inner query that groups by the distinct
\* columns and computes one aggregate per ordering expression (MAX when it is
\* ordered descending, MIN otherwise) under a generated alias, and an outer
\* query that selects the original output columns and orders by the generated
\* aliases in the original order and direction; the row limit of the input is
\* kept on the outer query
DistinctRewrittenAsGroups ==
  (call.op = "fix_distinct_orderby_not_in_select" /\ DistinctForm(Words(call.sql)))
    => Words(ret.sql) = GroupedAndOrdered(Words(call.sql),
                                          TopItems(DistinctColumns(Words(call.sql))),
                                          OrderingItems(Words(call.sql)))

\* the items of the projection list: between SELECT and the top-level FROM
Projection(w) == TopItems(SubSeq(w, 2, TopFrom(w) - 1))

\* the item holds a call of an aggregate function
CallsAggregate(item) ==
  \E i \in 1..(Len(item) - 1) : Upper(item[i]) \in AggregateNames /\ item[i + 1] = "("

Grouped(w) == \E i \in 1..(Len(w) - 1) : Upper(w[i]) = "GROUP" /\ Upper(w[i + 1]) = "BY"

\* an aggregate call in the projection beside another item without one, and
\* no GROUP BY
AggregateBesidePlain(w, items) ==
  /\ \E i \in 1..Len(items) : CallsAggregate(items[i])
  /\ \E i \in 1..Len(items) : ~CallsAggregate(items[i])
  /\ ~Grouped(w)

\* C25: the detector flags aggregate-without-groupby exactly when an aggregate
\* call is in the projection list beside at least one other comma-separated
\* expression that is not an aggregate and the query has no GROUP BY; a
\* projection made only of aggregate calls, or an aggregate only outside the
\* projection list, is not flagged
AggregateFlaggedExactly ==
  (/\ call.op = "static_sql_issues"
   /\ Upper(AtomAt(call.sql, 1)) = "SELECT" /\ TopFrom(Words(call.sql)) # 0)
    => ("aggregate_with_non_aggregate_without_group_by" \in ret.issues
          <=> AggregateBesidePlain(Words(call.sql), Projection(Words(call.sql))))

(***************************************************************************)
(* The lead lifecycle                                                      *)
(***************************************************************************)
\* the changes of status the business messages may make: from, to, message
LifecycleTransitions ==
  {<<"none", "pending_takeover", "new_parent">>,
   <<"pending_takeover", "partner_following", "partner_take_over">>,
   <<"pending_takeover", "partner_following", "complete_wechat">>,
   <<"pending_takeover", "sales_following", "sales_take_over">>,
   <<"partner_following", "sales_following", "transfer_to_sales">>,
   <<"partner_following", "lost", "abandon">>,
   <<"sales_following", "deal_closed", "deal_closed">>,
   <<"sales_following", "lost", "lost">>}

StatusBefore(c) == before.parents[c].current_status
StatusNow(c) == parents[c].current_status

\* C26: a lead is created as pending_takeover and changes status only by
\* pending_takeover -> partner_following (partner take-over, complete-wechat),
\* pending_takeover -> sales_following (sales take-over), partner_following ->
\* sales_following (transfer to sales), partner_following -> lost (abandon),
\* sales_following -> deal_closed (deal) or lost (lost); deal_closed and lost
\* are terminal
LifecycleFollowed ==
  \A c \in ParentCodes :
    \/ StatusNow(c) = StatusBefore(c)
    \/ <<StatusBefore(c), StatusNow(c), message.message_type>> \in LifecycleTransitions

\* a lead went from creation through partner take-over and transfer to a deal
DealAfterTransfer ==
  \E c \in ParentCodes :
    /\ StatusNow(c) = "deal_closed" /\ StatusBefore(c) = "sales_following"
    /\ Len(process_logs) = 4
    /\ process_logs[2].action_type = "partner_take_over"
    /\ process_logs[3].action_type = "transfer_to_sales"

\* C27: when a handler rejects a message, the persisted lead is unchanged and
\* no process-log entry is written, also for the sales take-over, which sets
\* the new status in its session before it validates team and intent level
RejectionLeavesLead ==
  (message # NoMessage /\ ~response.success)
    => parents = before.parents /\ process_logs = before.process_logs

\* a sales take-over of a pending lead by its salesperson was rejected for its
\* team or its intent level
TakeOverRejectedAfterStatus ==
  /\ message.message_type = "sales_take_over"
  /\ response.error \in {"invalid_sales_team", "invalid_intent_level"}
  /\ \E c \in ParentCodes :
       /\ message.parent_code = c
       /\ StatusBefore(c) = "pending_takeover"
       /\ before.parents[c].salesperson_id = message.sender

\* the role of a sender: by the prefix of the nickname, else as registered
RoleOfSender ==
  CASE message.sender[1] \in {"SM", "sm"} -> "social_media"
    [] message.sender[1] \in {"HP", "hp"} -> "partner"
    [] message.sender[1] \in {"XS", "xs"} -> "sales"
    [] OTHER -> before.staff_mapping[message.sender].role

PermittedMessages ==
  CASE RoleOfSender = "social_media" -> {"new_parent"}
    [] RoleOfSender = "partner" ->
         {"complete_wechat", "partner_take_over", "abandon", "transfer_to_sales"}
    [] RoleOfSender = "sales" -> {"sales_take_over", "feedback", "deal_closed", "lost"}
    [] OTHER -> {}

\* the person the lead of the message was assigned to, for the role of the sender
AssignedBefore ==
  IF RoleOfSender = "partner" THEN FindParent(before, message.parent_code).partner_id
  ELSE FindParent(before, message.parent_code).salesperson_id

\* C28: an operation succeeds only if the role of the sender permits the
\* message and, for a message about a lead, the sender is the partner or the
\* salesperson the lead is assigned to
OnlyOwnerInRoleSucceeds ==
  (message # NoMessage /\ response.success)
    => /\ message.message_type \in PermittedMessages
       /\ message.message_type # "new_parent" => AssignedBefore = message.sender

\* the salesperson registered without prefix closed the deal of a lead of theirs
OwnerClosedDeal ==
  /\ response.success /\ message.message_type = "deal_closed"
  /\ message.sender = <<"ZZ", "c">>

(***************************************************************************)
(* The lazily created agent                                                *)
(***************************************************************************)
\* the turns recorded in instance i
TurnsIn(i) == {agents[i][k] : k \in 1..Len(agents[i])}

\* no request is inside get_agent or process_message
AllAnswered == \A t \in Threads : requests[t].pc = "idle"

\* C29: for any interleaving of concurrent first requests get_agent creates
\* exactly one LangGraphAgent, so that every request records its turn in the
\* one conversation memory and no turn is in an instance that was discarded
AgentIsSingleton ==
  /\ Len(agents) <= 1
  /\ \A i \in 1..Len(agents) : TurnsIn(i) # {} => i = agent
  /\ AllAnswered /\ agent # NoAgent => TurnsIn(agent) = 1..started

(***************************************************************************)
(* The workflow graph                                                      *)
(***************************************************************************)
\* the paths of the graph from its entry point to END
GraphPaths ==
  {<<"parse_message", "handle_business_message", "generate_response">>,
   <<"parse_message", "handle_query_message", "generate_response">>,
   <<"parse_message", "handle_help_message", "generate_response">>,
   <<"parse_message", "generate_response">>}

\* the nodes run so far are the start of a path of the graph
OnGraphPath ==
  \E p \in GraphPaths :
    Len(run.trace) <= Len(p) /\ run.trace = SubSeq(p, 1, Len(run.trace))

\* at END a whole path was run and process_message returns a response
EndsWithResponse == run.node = "END" => (run.trace \in GraphPaths /\ run.reply # NoText)

\* the database executions of the run
AtMostTwoExecutions == Len(run.db_log) <= 2

\* C30: process_message ends with a response for every message: every run of
\* the graph goes parse, then one of business, query, help or the error
\* route, then response generation, then END, no node twice, and a query
\* makes at most two database executions
WorkflowEndsWithReply == OnGraphPath /\ EndsWithResponse /\ AtMostTwoExecutions

=============================================================================
